---- MODULE Spec2Model ----
(***************************************************************************)
(* A model of static_sqlite: the sql! macro's generation pipeline          *)
(* (static_sqlite_macros/src/lib.rs) and the migration routine it emits,   *)
(* run against the driver of static_sqlite_core/src/ffi.rs.                *)
(*                                                                         *)
(* Two specifications share the module:                                    *)
(*   SpecMigrate  one migration literal is validated by sql_macro, then    *)
(*                the emitted migrate fn is run repeatedly on a database.  *)
(*   SpecGen      one declaration block is expanded by sql_macro.          *)
(***************************************************************************)
EXTENDS Integers, Sequences, FiniteSets, TLC

\* ---------------------------------------------------------------- bounds
MaxStmts == 3      \* statements in a migration literal
MaxRuns == 3       \* calls of the emitted migrate fn
MaxExprs == 3      \* `let` entries in a declaration block

\* ------------------------------------------------------------- SQL text
Tables == {"A", "B"}

\* sqlparser::ast::Statement variants that is_ddl accepts.
DdlVariants ==
    {"CreateView", "CreateTable", "CreateVirtualTable", "CreateIndex",
     "CreateRole", "AlterTable", "AlterIndex", "AlterView", "AlterRole",
     "Drop", "DropFunction", "CreateExtension", "SetNamesDefault",
     "ShowFunctions", "ShowVariable", "ShowVariables", "ShowCreate",
     "ShowColumns", "ShowTables", "ShowCollation", "Use",
     "StartTransaction", "SetTransaction", "Comment", "Commit", "Rollback",
     "CreateSchema", "CreateDatabase", "CreateFunction", "CreateProcedure",
     "CreateMacro", "CreateStage", "Prepare", "ExplainTable", "Explain",
     "Savepoint", "ReleaseSavepoint", "CreateSequence", "CreateType",
     "Pragma"}

\* One SQL statement as written in a literal:
\*   variant  its sqlparser variant.  CreateTable is `create table T (id ..)`,
\*            AlterTable is `alter table T add column c ..`, Drop is
\*            `drop table T`, Insert is `insert into T .. returning *`;
\*   ws       the text carries extra whitespace (same statement, other text);
\*   semi     the text carries a `;` inside a string literal
\*            (`create table T (id text default 'a;b')`).
Stmt(v, t, w, s) == [variant |-> v, tbl |-> t, ws |-> w, semi |-> s]

MigStmts ==
    {s \in [variant : {"CreateTable", "AlterTable", "Drop"}, tbl : Tables,
            ws : BOOLEAN, semi : BOOLEAN] :
        s.semi => s.variant = "CreateTable"}

MigTexts == UNION {[1..n -> MigStmts] : n \in 0..MaxStmts}

\* ------------------------------------------------------ SQLite's schema
\* A database schema: a function from the existing tables to their columns.
EmptyDb == [t \in {} |-> <<>>]

HasTable(db, t) == t \in DOMAIN db

\* What SQLite does with one whole DDL statement.
ExecDDL(db, variant, t) ==
    CASE variant = "CreateTable" ->
            IF HasTable(db, t)
            THEN [ok |-> FALSE, db |-> db]
            ELSE [ok |-> TRUE,
                  db |-> [x \in DOMAIN db \cup {t} |->
                             IF x = t THEN <<"id">> ELSE db[x]]]
      [] variant = "AlterTable" ->
            IF HasTable(db, t) /\ \A i \in 1..Len(db[t]) : db[t][i] # "c"
            THEN [ok |-> TRUE,
                  db |-> [db EXCEPT ![t] = Append(@, "c")]]
            ELSE [ok |-> FALSE, db |-> db]
      [] variant = "Drop" ->
            IF HasTable(db, t)
            THEN [ok |-> TRUE, db |-> [x \in DOMAIN db \ {t} |-> db[x]]]
            ELSE [ok |-> FALSE, db |-> db]
      [] OTHER -> [ok |-> FALSE, db |-> db]

VARIABLES
    sql,        \* the migration literal handed to sql_macro / migrate_fn
    namesOk,    \* whether names::validate_migrate_expr would accept it
    phase,      \* "macro" | "rejected" | "generated" | "idle" | "running"
    live,       \* schema of the database the migrate fn is run on
    opened,     \* schema the database had when it was opened
    mig,        \* rows of __migrations__
    hasMig,     \* __migrations__ exists
    pos,        \* index of the statement the running migrate fn is at
    run,        \* calls of the migrate fn so far
    results,    \* result of each finished call, in order
    execLog,    \* every execution of a statement's DDL: [run, idx]
    applied,    \* indexes of the statements whose DDL succeeded
    startSnap,  \* live and mig when the current call began
    firstSnap,  \* live and mig when the first call ended
    lastFail,   \* index the latest finished call failed at, 0 if none
    prevFail,   \* lastFail as it was when the current call began
    block,      \* the declaration block handed to sql_macro
    genPhase,   \* "input" | "done"
    out,        \* what sql_macro returned for block
    call,       \* the function under call and the arguments it is given
    callPhase,  \* "idle" | "input" | "done"
    ret,        \* what the call returned
    tape,       \* what SQLite will do with the statement a driver op runs
    prepared,   \* every statement handle prepared: who by, steps, finalizes
    drvOp,      \* the driver operation chosen
    drvPhase,   \* "off" | "ready" | "iterating" | "scoped" | "done"
    drvRet,     \* what the driver operation returned
    iter,       \* the SqliteIterator: finished flag, items, steps
    conn        \* the connection: handles, open, savepoints, close calls

migVars == <<sql, phase, live, opened, mig, hasMig, pos, run, results,
             execLog, applied, startSnap, firstSnap, lastFail, prevFail>>
genVars == <<block, genPhase, out>>
callVars == <<call, callPhase, ret>>
drvVars == <<tape, prepared, drvOp, drvPhase, drvRet, iter, conn>>
vars == <<sql, namesOk, phase, live, opened, mig, hasMig, pos, run, results,
          execLog, applied, startSnap, firstSnap, lastFail, prevFail,
          block, genPhase, out, call, callPhase, ret,
          tape, prepared, drvOp, drvPhase, drvRet, iter, conn>>

\* ------------------------------------------- the emitted migrate fn's view
Piece(k, v, t, w) == [kind |-> k, variant |-> v, tbl |-> t, ws |-> w]

\* The text of one statement cut at every `;`: a statement with a `;` inside
\* a literal falls into a head and a tail, neither of which is SQL.
PiecesOf(s) ==
    IF s.semi
    THEN <<Piece("head", s.variant, s.tbl, s.ws), Piece("tail", "-", "-", FALSE)>>
    ELSE <<Piece("whole", s.variant, s.tbl, s.ws)>>

RECURSIVE SplitSemi(_)
\* sql.split(";"): every statement of the literal ends in `;` and a newline,
\* so the last piece is whitespace only.
SplitSemi(text) ==
    IF text = <<>>
    THEN <<Piece("blank", "-", "-", TRUE)>>
    ELSE PiecesOf(Head(text)) \o SplitSemi(Tail(text))

\* s.trim().is_empty()
IsBlank(p) == p.kind = "blank"

\* sql.split(";").filter(|s| !s.trim().is_empty())
MigrationStmts(text) == SelectSeq(SplitSemi(text), LAMBDA p : ~IsBlank(p))

\* stmt.chars().filter(|c| !c.is_whitespace()).collect()
Fingerprint(p) == [kind |-> p.kind, variant |-> p.variant, tbl |-> p.tbl]

\* InsertMigration as `insert or replace` would make it: a row always changes.
InsertMigration_replace(rows, fp) ==
    [rows |-> rows \cup {fp}, changes |-> 1]

\* insert into __migrations__ (sql) values (:sql) on conflict (sql) do
\* nothing, through Sqlite::execute, which returns sqlite3_changes.
InsertMigration(rows, fp) ==
    [rows |-> rows \cup {fp}, changes |-> IF fp \in rows THEN 0 ELSE 1]

\* Sqlite::execute on the text of one piece.
ExecutePiece(db, p) ==
    IF p.kind = "whole"
    THEN ExecDDL(db, p.variant, p.tbl)
    ELSE [ok |-> FALSE, db |-> db]

\* ------------------------------------------- sql_macro on the migration
RECURSIVE OracleApply(_, _)
\* for stmt in &migrate_expr.statements { db.execute_all(&stmt.to_string()) }
OracleApply(db, stmts) ==
    IF stmts = <<>>
    THEN [ok |-> TRUE, db |-> db]
    ELSE LET r == ExecDDL(db, Head(stmts).variant, Head(stmts).tbl)
         IN  IF r.ok THEN OracleApply(r.db, Tail(stmts))
                     ELSE [ok |-> FALSE, db |-> db]

\* names::validate_migrate_expr: free to reject any migration expression,
\* and rejects one without statements.
validate_migrate_expr(stmts, accept) == Len(stmts) > 0 /\ accept

Snap(db, rows) == [live |-> db, mig |-> rows]

GenIdle ==
    /\ block = <<>>
    /\ genPhase = "idle"
    /\ out = [ok |-> FALSE, diag |-> "-", migrate |-> 0, fns |-> <<>>,
              structs |-> {}]

\* The emitted migrate fn is not part of the run.
MigOff ==
    /\ sql = <<>>
    /\ phase = "off"
    /\ live = EmptyDb
    /\ opened = EmptyDb
    /\ mig = {}
    /\ hasMig = FALSE
    /\ pos = 0
    /\ run = 0
    /\ results = <<>>
    /\ execLog = {}
    /\ applied = {}
    /\ startSnap = Snap(EmptyDb, {})
    /\ firstSnap = Snap(EmptyDb, {})
    /\ lastFail = 0
    /\ prevFail = 0

\* No iterator exists.
NoIter == [active |-> FALSE, stmt |-> 0, finished |-> FALSE, pos |-> 0,
           items |-> <<>>, stepsAfterNone |-> 0]

\* No connection is under observation.
NoConn == [handles |-> {}, dropped |-> {}, open |-> FALSE, closeCalls |-> 0,
           unfinalized |-> 0, misuse |-> FALSE, savepoints |-> <<>>,
           events |-> <<>>]

\* No driver operation is part of the run.
DrvOff ==
    /\ tape = [prepares |-> FALSE, rows |-> <<>>, final |-> <<>>]
    /\ prepared = <<>>
    /\ drvOp = "-"
    /\ drvPhase = "off"
    /\ drvRet = [ok |-> FALSE, val |-> <<>>, err |-> <<>>]
    /\ iter = NoIter
    /\ conn = NoConn

\* No single function is under call.
CallIdle ==
    /\ call = [fn |-> "-"]
    /\ callPhase = "idle"
    /\ ret = [ok |-> FALSE]

InitMigrate ==
    /\ CallIdle
    /\ DrvOff
    /\ sql \in MigTexts
    /\ namesOk \in BOOLEAN
    /\ phase = "macro"
    /\ live = EmptyDb
    /\ opened = EmptyDb
    /\ mig = {}
    /\ hasMig = FALSE
    /\ pos = 0
    /\ run = 0
    /\ results = <<>>
    /\ execLog = {}
    /\ applied = {}
    /\ startSnap = Snap(EmptyDb, {})
    /\ firstSnap = Snap(EmptyDb, {})
    /\ lastFail = 0
    /\ prevFail = 0
    /\ GenIdle

\* sql_macro, as far as the migration expression goes: the Oracle executes
\* every parsed statement in order, then the names are validated.
MacroValidate ==
    /\ phase = "macro"
    /\ phase' = IF OracleApply(EmptyDb, sql).ok /\ validate_migrate_expr(sql, namesOk)
                THEN "generated" ELSE "rejected"
    /\ UNCHANGED <<sql, namesOk, live, opened, mig, hasMig, pos, run, results,
                   execLog, applied, startSnap, firstSnap, lastFail, prevFail>>
    /\ UNCHANGED genVars
    /\ UNCHANGED callVars
    /\ UNCHANGED drvVars

\* static_sqlite::open: a fresh database, or one the user already keeps a
\* table in.
Open ==
    /\ phase = "generated"
    /\ \E db \in {EmptyDb, ExecDDL(EmptyDb, "CreateTable", "A").db} :
          /\ live' = db
          /\ opened' = db
    /\ phase' = "idle"
    /\ UNCHANGED <<sql, namesOk, mig, hasMig, pos, run, results, execLog,
                   applied, startSnap, firstSnap, lastFail, prevFail>>
    /\ UNCHANGED genVars
    /\ UNCHANGED callVars
    /\ UNCHANGED drvVars

\* migrate(&db): create table if not exists __migrations__ ...
MigrateBegin ==
    /\ phase = "idle"
    /\ run < MaxRuns
    /\ run' = run + 1
    /\ hasMig' = TRUE
    /\ pos' = 1
    /\ startSnap' = Snap(live, mig)
    /\ prevFail' = lastFail
    /\ phase' = "running"
    /\ UNCHANGED <<sql, namesOk, live, opened, mig, results, execLog, applied,
                   firstSnap, lastFail>>
    /\ UNCHANGED genVars
    /\ UNCHANGED callVars
    /\ UNCHANGED drvVars

\* The call returns res; failedAt is the statement it failed at, or 0.
Return(res, failedAt) ==
    /\ results' = Append(results, res)
    /\ lastFail' = failedAt
    /\ firstSnap' = IF run = 1 THEN Snap(live', mig') ELSE firstSnap
    /\ phase' = "idle"

\* One turn of the loop over the statements of the literal.
MigrateStep ==
    /\ phase = "running"
    /\ pos <= Len(MigrationStmts(sql))
    /\ LET stmt == MigrationStmts(sql)[pos]
           ins  == InsertMigration(mig, Fingerprint(stmt))
           r    == ExecutePiece(live, stmt)
       IN  /\ mig' = ins.rows
           /\ IF ins.changes # 0
              THEN /\ execLog' = execLog \cup {[run |-> run, idx |-> pos]}
                   /\ IF r.ok
                      THEN /\ live' = r.db
                           /\ applied' = applied \cup {pos}
                           /\ pos' = pos + 1
                           /\ UNCHANGED <<results, lastFail, firstSnap, phase>>
                      ELSE /\ UNCHANGED <<live, applied, pos>>
                           /\ Return("err", pos)
              ELSE /\ pos' = pos + 1
                   /\ UNCHANGED <<live, applied, execLog, results, lastFail,
                                  firstSnap, phase>>
    /\ UNCHANGED <<sql, namesOk, opened, hasMig, run, startSnap, prevFail>>
    /\ UNCHANGED genVars
    /\ UNCHANGED callVars
    /\ UNCHANGED drvVars

\* return Ok(())
MigrateReturn ==
    /\ phase = "running"
    /\ pos > Len(MigrationStmts(sql))
    /\ UNCHANGED <<sql, namesOk, live, opened, mig, hasMig, pos, run, execLog,
                   applied, startSnap, prevFail>>
    /\ Return("ok", 0)
    /\ UNCHANGED genVars
    /\ UNCHANGED callVars
    /\ UNCHANGED drvVars

NextMigrate == MacroValidate \/ Open \/ MigrateBegin \/ MigrateStep \/ MigrateReturn

SpecMigrate == InitMigrate /\ [][NextMigrate]_vars

\* ------------------------------------------------- the migration claims
LastResult == IF results = <<>> THEN "none" ELSE results[Len(results)]

FpAt(i) == Fingerprint(MigrationStmts(sql)[i])

\* C1: run twice on a fresh database, the second call executes no DDL and
\* leaves the schema and the rows of __migrations__ as the first call left
\* them.
C1_SecondRunChangesNothing ==
    (opened = EmptyDb /\ phase = "idle" /\ run = 2) =>
        /\ \A e \in execLog : e.run # 2
        /\ Snap(live, mig) = firstSnap

\* C2: over all calls, failed ones included, no statement's DDL is executed
\* twice, and a DDL is executed only by the call and the turn that insert its
\* fingerprint into __migrations__.
C2_ExecutedAtMostOnce ==
    /\ [](\A e1, e2 \in execLog : FpAt(e1.idx) = FpAt(e2.idx) => e1 = e2)
    /\ [][\A e \in execLog' \ execLog :
             /\ e.run = run
             /\ FpAt(e.idx) \notin mig
             /\ FpAt(e.idx) \in mig']_vars

\* A second call has finished after a failed first one, and a statement the
\* first call executed was passed over by the second.
C2_Witness ==
    /\ phase = "idle"
    /\ Len(results) >= 2
    /\ results[1] = "err"
    /\ \E e \in execLog : e.run = 1 /\ e.idx < pos
    /\ \E e \in execLog : e.run = 2

\* C3: between calls, the rows of __migrations__ are exactly the
\* fingerprints of the statements whose DDL succeeded.
C3_RowsAreAppliedStatements ==
    phase = "idle" => mig = {FpAt(i) : i \in applied}

\* C4: the call after one that failed at statement k executes statement k.
C4_FailedStatementRetried ==
    (phase = "idle" /\ run >= 2 /\ prevFail # 0) =>
        [run |-> run, idx |-> prevFail] \in execLog

\* C5: a call that fails leaves the schema and __migrations__ as it found
\* them; a call that succeeds has every statement recorded.
C5_AllOrNothing ==
    /\ (phase = "idle" /\ LastResult = "err") => Snap(live, mig) = startSnap
    /\ (phase = "idle" /\ LastResult = "ok") =>
           \A i \in 1..Len(MigrationStmts(sql)) : FpAt(i) \in mig

\* ------------------------------------------------- the declaration block
\* Identifiers are sequences of characters.
StreamSuffix == <<"_", "s", "t", "r", "e", "a", "m">>
FirstSuffix == <<"_", "f", "i", "r", "s", "t">>

Idents ==
    {<<"m">>, <<"a">>, <<"a">> \o StreamSuffix, <<"a">> \o FirstSuffix,
     Tail(StreamSuffix)}

\* The statement lists a `let` entry's literal parses to.
ExprBodies ==
    {<<>>,
     <<Stmt("CreateTable", "A", FALSE, FALSE)>>,
     <<Stmt("CreateTable", "B", FALSE, FALSE)>>,
     <<Stmt("CreateTable", "A", FALSE, FALSE), Stmt("CreateTable", "A", TRUE, FALSE)>>,
     <<Stmt("Insert", "A", FALSE, FALSE)>>,
     <<Stmt("Insert", "B", FALSE, FALSE)>>,
     <<Stmt("CreateTable", "A", FALSE, FALSE), Stmt("Insert", "A", FALSE, FALSE)>>}

\* The identifiers of a block of n entries whose generated items could
\* coexist: no identifier twice.
IdentSeqs(n) ==
    {ids \in [1..n -> Idents] : \A i, j \in 1..n : ids[i] = ids[j] => i = j}

\* struct SqlExprs(pub Vec<SqlExpr>), each SqlExpr { ident, sql, statements }
Block(ids, bodies) ==
    [i \in DOMAIN ids |-> [ident |-> ids[i], statements |-> bodies[i]]]

\* str::ends_with
ends_with(s, suffix) ==
    /\ Len(s) >= Len(suffix)
    /\ SubSeq(s, Len(s) - Len(suffix) + 1, Len(s)) = suffix

to_uppercase(ch) ==
    CASE ch = "a" -> "A" [] ch = "b" -> "B" [] ch = "e" -> "E"
      [] ch = "f" -> "F" [] ch = "i" -> "I" [] ch = "l" -> "L"
      [] ch = "m" -> "M" [] ch = "n" -> "N" [] ch = "o" -> "O"
      [] ch = "q" -> "Q" [] ch = "r" -> "R" [] ch = "s" -> "S"
      [] ch = "t" -> "T" [] ch = "u" -> "U" [] ch = "x" -> "X"
      [] OTHER -> ch

to_lowercase(ch) ==
    CASE ch = "A" -> "a" [] ch = "B" -> "b" [] ch = "E" -> "e"
      [] ch = "F" -> "f" [] ch = "I" -> "i" [] ch = "L" -> "l"
      [] ch = "M" -> "m" [] ch = "N" -> "n" [] ch = "O" -> "o"
      [] ch = "Q" -> "q" [] ch = "R" -> "r" [] ch = "S" -> "s"
      [] ch = "T" -> "t" [] ch = "U" -> "u" [] ch = "X" -> "x"
      [] OTHER -> ch

RECURSIVE PascalFrom(_, _)
\* The loop of snake_to_pascal_case over the remaining characters.
PascalFrom(s, capitalize_next) ==
    IF s = <<>> THEN <<>>
    ELSE IF Head(s) = "_" THEN PascalFrom(Tail(s), TRUE)
    ELSE IF capitalize_next
         THEN <<to_uppercase(Head(s))>> \o PascalFrom(Tail(s), FALSE)
         ELSE <<to_lowercase(Head(s))>> \o PascalFrom(Tail(s), FALSE)

snake_to_pascal_case(input) == PascalFrom(input, TRUE)

\* is_ddl with Iterator::any in place of Iterator::all.
is_ddl_any(expr) ==
    \E k \in 1..Len(expr.statements) : expr.statements[k].variant \in DdlVariants

\* expr.statements.iter().all(|stmt| matches!(stmt, <the DDL variants>))
is_ddl(expr) ==
    \A k \in 1..Len(expr.statements) : expr.statements[k].variant \in DdlVariants

RECURSIVE FindFrom(_, _)
\* Iterator::find from position i on: the index of the first all-DDL entry,
\* or 0.
FindFrom(exprs, i) ==
    IF i > Len(exprs) THEN 0
    ELSE IF is_ddl(exprs[i]) THEN i
    ELSE FindFrom(exprs, i + 1)

RECURSIVE FilterFrom(_, _)
\* What is left of the iterator from position i on, filtered by !is_ddl.
FilterFrom(exprs, i) ==
    IF i > Len(exprs) THEN <<>>
    ELSE IF ~is_ddl(exprs[i]) THEN <<i>> \o FilterFrom(exprs, i + 1)
    ELSE FilterFrom(exprs, i + 1)

\* split_exprs: migrate is the index of the migration expression (0: the
\* "You need a migration fn" error), exprs the indexes of the others.
split_exprs(exprs) ==
    LET m == FindFrom(exprs, 1)
    IN  [migrate |-> m,
         exprs |-> IF m = 0 THEN <<>> ELSE FilterFrom(exprs, m + 1)]

\* sqlite3_prepare_v2 on a literal: it compiles the first statement against
\* the Oracle's schema.
PrepareOk(db, statements) ==
    LET st == statements[1]
    IN  IF st.variant \in {"Insert", "Update", "Delete", "Query"}
        THEN HasTable(db, st.tbl)
        ELSE ExecDDL(db, st.variant, st.tbl).ok

\* table_names: todo!() on any statement that is not a data statement.
TableNamesOk(statements) ==
    \A k \in 1..Len(statements) :
        statements[k].variant \in {"Insert", "Update", "Delete", "Query"}

\* fn_type with the suffixes compared without their underscore.
fn_type_bare(ident) ==
    IF ends_with(ident, Tail(StreamSuffix)) THEN "Stream"
    ELSE IF ends_with(ident, Tail(FirstSuffix)) THEN "QueryOption"
    ELSE "QueryVec"

\* The choice of FunctionType in fn_tokens.
fn_type(ident) ==
    IF ends_with(ident, StreamSuffix) THEN "Stream"
    ELSE IF ends_with(ident, FirstSuffix) THEN "QueryOption"
    ELSE "QueryVec"

\* What fn_tokens does with one expression: the diagnostic, or "-".
FnDiag(db, expr) ==
    IF expr.statements = <<>> THEN "NoStatement"
    ELSE IF ~PrepareOk(db, expr.statements) THEN "Oracle"
    ELSE IF ~TableNamesOk(expr.statements) THEN "Panic"
    ELSE "-"

\* The row struct and the accessor fn_tokens pushes for block entry i.
FnItem(ident, i) ==
    [name |-> ident, kind |-> fn_type(ident),
     row |-> snake_to_pascal_case(ident), src |-> i]

RECURSIVE fn_tokens(_, _, _)
\* fn_tokens over the indexes ixs of the block b: the first diagnostic stops
\* it.
fn_tokens(db, b, ixs) ==
    IF ixs = <<>> THEN [diag |-> "-", fns |-> <<>>]
    ELSE LET d == FnDiag(db, b[Head(ixs)])
             rest == fn_tokens(db, b, Tail(ixs))
         IN  IF d # "-" THEN [diag |-> d, fns |-> <<>>]
             ELSE IF rest.diag # "-" THEN rest
             ELSE [diag |-> "-",
                   fns |-> <<FnItem(b[Head(ixs)].ident, Head(ixs))>> \o rest.fns]

Failure(d) ==
    [ok |-> FALSE, diag |-> d, migrate |-> 0, fns |-> <<>>, structs |-> {}]

\* sql_macro: the tokens it returns, or the diagnostic.
sql_macro(b, accept) ==
    LET split == split_exprs(b)
    IN  IF split.migrate = 0 THEN Failure("NoMigration")
        ELSE
        LET oracle == OracleApply(EmptyDb, b[split.migrate].statements)
            fns == fn_tokens(oracle.db, b, split.exprs)
        IN  IF ~oracle.ok THEN Failure("Oracle")
            ELSE IF ~validate_migrate_expr(b[split.migrate].statements, accept)
                 THEN Failure("Names")
            ELSE IF fns.diag # "-" THEN Failure(fns.diag)
            ELSE [ok |-> TRUE, diag |-> "-", migrate |-> split.migrate,
                  fns |-> fns.fns, structs |-> DOMAIN oracle.db]

InitGen ==
    /\ \E n \in 0..MaxExprs :
          \E ids \in IdentSeqs(n), bodies \in [1..n -> ExprBodies] :
              block = Block(ids, bodies)
    /\ namesOk \in BOOLEAN
    /\ CallIdle
    /\ DrvOff
    /\ genPhase = "input"
    /\ out = Failure("-")
    /\ sql = <<>>
    /\ phase = "off"
    /\ live = EmptyDb
    /\ opened = EmptyDb
    /\ mig = {}
    /\ hasMig = FALSE
    /\ pos = 0
    /\ run = 0
    /\ results = <<>>
    /\ execLog = {}
    /\ applied = {}
    /\ startSnap = Snap(EmptyDb, {})
    /\ firstSnap = Snap(EmptyDb, {})
    /\ lastFail = 0
    /\ prevFail = 0

\* The expansion of sql! { block }.
SqlMacro ==
    /\ genPhase = "input"
    /\ out' = sql_macro(block, namesOk)
    /\ genPhase' = "done"
    /\ UNCHANGED <<block, namesOk>>
    /\ UNCHANGED migVars
    /\ UNCHANGED callVars
    /\ UNCHANGED drvVars

NextGen == SqlMacro

SpecGen == InitGen /\ [][NextGen]_vars

\* ------------------------------------------------- the generation claims
\* Every statement of entry i is DDL/admin.
AllDdl(i) ==
    \A k \in 1..Len(block[i].statements) :
        block[i].statements[k].variant \in DdlVariants

\* Entry i has a data statement.
HasData(i) ==
    \E k \in 1..Len(block[i].statements) :
        block[i].statements[k].variant \in {"Insert", "Update", "Delete", "Query"}

DdlEntries == {i \in 1..Len(block) : AllDdl(i)}

FnsOf(i) == {k \in 1..Len(out.fns) : out.fns[k].src = i}

C7_EveryQueryHasAccessor ==
    (genPhase = "done" /\ out.ok) =>
        \A i \in 1..Len(block) :
            (i # out.migrate /\ HasData(i)) => Cardinality(FnsOf(i)) = 1

\* C8: a block with an entry that parses to no statement is never expanded.
C8_EmptyEntryAborts ==
    (genPhase = "done" /\ \E i \in 1..Len(block) : block[i].statements = <<>>)
        => ~out.ok

\* The kind the suffix of an identifier asks for.
KindBySuffix(ident) ==
    LET n == Len(ident)
    IN  IF n >= 7 /\ SubSeq(ident, n - 6, n) = <<"_", "s", "t", "r", "e", "a", "m">>
        THEN "Stream"
        ELSE IF n >= 6 /\ SubSeq(ident, n - 5, n) = <<"_", "f", "i", "r", "s", "t">>
        THEN "QueryOption"
        ELSE "QueryVec"

\* The entries the partitioner hands on as query expressions: those after the
\* migration expression that are not all-DDL.
QueryEntries == {i \in 1..Len(block) : i > out.migrate /\ ~AllDdl(i)}

C10_StreamVariantExists ==
    (genPhase = "done" /\ out.ok) =>
        \A k \in 1..Len(out.fns) :
            \E j \in 1..Len(out.fns) :
                /\ out.fns[j].name = out.fns[k].name \o StreamSuffix
                /\ out.fns[j].kind = "Stream"


\* ================================================== the driver: query_first
MaxRows == 3

\* What from_row makes of a row the statement yields: a row value, or "bad"
\* when a column cannot be converted.
RowOutcomes == {"r1", "r2", "bad"}

UniquePrefix == "UNIQUE constraint failed: "

\* sqlite3_errmsg after a failed step, as <<prefix, rest>>.
ErrMsgs == {<<UniquePrefix, "User.name">>, <<"", "disk I/O error">>}

RowSeqs(n) == [1..n -> RowOutcomes]

Ok(v) == [ok |-> TRUE, val |-> v, err |-> <<>>]

Err(kind, detail) == [ok |-> FALSE, val |-> <<>>, err |-> <<kind, detail>>]

\* finalize_statement: rc of sqlite3_finalize is the last step's failure.
finalize_statement(final) ==
    IF final = <<>>
    THEN Ok(<<>>)
    ELSE IF final[1][1] = UniquePrefix
         THEN Err("UniqueConstraint", final[1][2])
         ELSE Err("Sqlite", final[1][1] \o final[1][2])

\* Index of the first row from_row fails on, 0 if none.
FirstBad(rows) ==
    IF \E k \in 1..Len(rows) : rows[k] = "bad"
    THEN CHOOSE k \in 1..Len(rows) :
            rows[k] = "bad" /\ \A j \in 1..(k - 1) : rows[j] # "bad"
    ELSE 0

\* Sqlite::query on a statement that prepares or not, yields rows, and ends
\* with SQLITE_DONE (final = <<>>) or a failed step (final = <<msg>>).
query(c) ==
    IF ~c.prepares
    THEN Err("Sqlite", "prepare")
    ELSE IF FirstBad(c.rows) # 0
         THEN Err("Sqlite", "column type mismatch")
         ELSE LET fin == finalize_statement(c.final)
              IN  IF fin.ok THEN Ok(c.rows) ELSE fin

\* query_first that keeps the first row of a longer result.
query_first_nth(c) ==
    LET q == query(c)
    IN  IF q.ok
        THEN IF Len(q.val) = 0 THEN Ok(<<>>) ELSE Ok(<<q.val[1]>>)
        ELSE q

\* Sqlite::query_first; None is <<>>, Some(row) is <<row>>.
query_first(c) ==
    LET q == query(c)
    IN  IF q.ok
        THEN CASE Len(q.val) = 0 -> Ok(<<>>)
               [] Len(q.val) = 1 -> Ok(<<q.val[1]>>)
               [] OTHER -> Err("TooManyRowsInResult", "")
        ELSE q

QueryFirstCalls(n) ==
    {[fn |-> "query_first", prepares |-> p, rows |-> r, final |-> f] :
        p \in BOOLEAN, r \in RowSeqs(n),
        f \in {<<>>} \cup {<<m>> : m \in ErrMsgs}}

InitQueryFirst ==
    /\ \E n \in 0..MaxRows : call \in QueryFirstCalls(n)
    /\ callPhase = "input"
    /\ ret = Ok(<<>>)
    /\ namesOk = FALSE
    /\ GenIdle
    /\ MigOff
    /\ DrvOff

\* db.query_first(sql, params)
QueryFirst ==
    /\ callPhase = "input"
    /\ call.fn = "query_first"
    /\ ret' = query_first(call)
    /\ callPhase' = "done"
    /\ UNCHANGED <<call, namesOk>>
    /\ UNCHANGED migVars
    /\ UNCHANGED genVars
    /\ UNCHANGED drvVars

NextQueryFirst == QueryFirst

SpecQueryFirst == InitQueryFirst /\ [][NextQueryFirst]_vars

\* C11: query_first returns None when the query yields no row, Some(row)
\* when it yields exactly one, the error TooManyRowsInResult when it yields
\* two or more, and whatever error the underlying query returned otherwise.
C11_QueryFirst ==
    (callPhase = "done" /\ call.fn = "query_first") =>
        LET clean == /\ call.prepares
                     /\ call.final = <<>>
                     /\ \A k \in 1..Len(call.rows) : call.rows[k] # "bad"
        IN  /\ (clean /\ Len(call.rows) = 0) => (ret.ok /\ ret.val = <<>>)
            /\ (clean /\ Len(call.rows) = 1) =>
                  (ret.ok /\ ret.val = <<call.rows[1]>>)
            /\ (clean /\ Len(call.rows) >= 2) =>
                  (~ret.ok /\ ret.err[1] = "TooManyRowsInResult")
            /\ ~clean => (~query(call).ok /\ ret = query(call))

\* query_first turned a result of three rows into TooManyRowsInResult.
C11_Witness ==
    /\ callPhase = "done" /\ call.fn = "query_first"
    /\ call.prepares /\ call.final = <<>>
    /\ call.rows = <<"r1", "r2", "r1">>
    /\ ~ret.ok /\ ret.err[1] = "TooManyRowsInResult"


\* ===================================== inference of arguments and row types
MaxNames == 3

\* Strings the inference takes apart are sequences of characters.
TEXT == <<"T", "E", "X", "T">>
INTEGER == <<"I", "N", "T", "E", "G", "E", "R">>
REAL == <<"R", "E", "A", "L">>
DOUBLE == <<"D", "O", "U", "B", "L", "E">>
BLOB == <<"B", "L", "O", "B">>
VARCHAR == <<"V", "A", "R", "C", "H", "A", "R">>
s_id == <<"i", "d">>
s_name == <<"n", "a", "m", "e">>
s_note == <<"n", "o", "t", "e">>
s_code == <<"c", "o", "d", "e">>
s_seq == <<"s", "e", "q">>
s_n == <<"n">>
Sep == <<"_", "_">>
Colon == ":"
Anonymous == <<"?">>
TableT == <<"T">>
TableU == <<"U">>

SchemaRow(t, c, ty, nn, pk) ==
    [table_name |-> t, column_name |-> c, column_type |-> ty,
     not_null |-> nn, pk |-> pk]

\* The Schema of
\*   create table T (id integer primary key, name text not null, note text);
\*   create table U (code text not null, seq integer not null, note text,
\*                   primary key (code, seq));
\* as the schema query reports it: pk is the column's 1-based position in
\* the primary key.
InferSchema ==
    [t \in {TableT, TableU} |->
        IF t = TableT
        THEN << SchemaRow(TableT, s_id, INTEGER, 0, 1),
                SchemaRow(TableT, s_name, TEXT, 1, 0),
                SchemaRow(TableT, s_note, TEXT, 0, 0) >>
        ELSE << SchemaRow(TableU, s_code, TEXT, 1, 1),
                SchemaRow(TableU, s_seq, INTEGER, 1, 2),
                SchemaRow(TableU, s_note, TEXT, 0, 0) >>]

\* Names a statement can use for a bind parameter or a result column.
ColumnNames ==
    { s_id, s_name, s_note, s_code, s_seq,
      s_id \o Sep \o INTEGER,
      s_name \o Sep \o TEXT \o Sep \o <<"N", "u", "L", "L", "a", "B", "L", "e">>,
      s_note \o Sep \o REAL \o Sep \o <<"N", "O", "T", "_", "N", "U", "L", "L">>,
      s_n \o Sep \o TEXT \o Sep \o <<"m", "a", "y", "b", "e">>,
      s_n \o Sep \o TEXT \o Sep \o <<"m", "a", "y", "b", "e">> \o Sep \o s_n,
      s_n \o Sep \o VARCHAR }

\* Bind parameters as written in the SQL: ? or :name.
ParamTokens == {Anonymous} \cup {<<Colon>> \o n : n \in ColumnNames}

RECURSIVE SplitFrom(_, _, _)
\* str::split("__") from position i on, cur being the part under way.
SplitFrom(str, i, cur) ==
    IF i > Len(str)
    THEN <<cur>>
    ELSE IF i < Len(str) /\ SubSeq(str, i, i + 1) = Sep
         THEN <<cur>> \o SplitFrom(str, i + 2, <<>>)
         ELSE SplitFrom(str, i + 1, Append(cur, str[i]))

split(str) == SplitFrom(str, 1, <<>>)

\* str::to_lowercase that leaves the string as it is.
str_to_lowercase_id(str) == str

str_to_lowercase(str) == [i \in 1..Len(str) |-> to_lowercase(str[i])]

\* str::replacen(":", "", 1)
replacen(str) ==
    IF \E i \in 1..Len(str) : str[i] = Colon
    THEN LET i == CHOOSE i \in 1..Len(str) :
                     str[i] = Colon /\ \A j \in 1..(i - 1) : str[j] # Colon
         IN  SubSeq(str, 1, i - 1) \o SubSeq(str, i + 1, Len(str))
    ELSE str

Panic(kind, name) == [kind |-> "panic", what |-> kind, name |-> name]

FromTypeHint(alias, name, ty, nn) ==
    [kind |-> "FromTypeHint", alias |-> alias, name |-> name,
     column_type |-> ty, not_null |-> nn]

FromSchemaRow(row) == [kind |-> "FromSchemaRow", row |-> row]

\* parse_type_hinted_column_name that takes any third segment as not_null.
parse_type_hinted_column_name_lax(alias, schema_rows) ==
    LET parts == split(alias)
    IN  CASE Len(parts) = 1 ->
               IF \E k \in 1..Len(schema_rows) :
                     schema_rows[k].column_name = alias
               THEN FromSchemaRow(schema_rows[
                        CHOOSE k \in 1..Len(schema_rows) :
                            /\ schema_rows[k].column_name = alias
                            /\ \A j \in 1..(k - 1) :
                                  schema_rows[j].column_name # alias])
               ELSE Panic("NotInSchema", alias)
          [] Len(parts) = 2 -> FromTypeHint(alias, parts[1], parts[2], 1)
          [] Len(parts) = 3 ->
               IF str_to_lowercase(parts[3]) = <<"n", "u", "l", "l", "a", "b", "l", "e">>
               THEN FromTypeHint(alias, parts[1], parts[2], 0)
               ELSE FromTypeHint(alias, parts[1], parts[2], 1)
          [] OTHER -> Panic("InvalidHint", alias)

parse_type_hinted_column_name(alias, schema_rows) ==
    LET parts == split(alias)
    IN  CASE Len(parts) = 1 ->
               IF \E k \in 1..Len(schema_rows) :
                     schema_rows[k].column_name = alias
               THEN FromSchemaRow(schema_rows[
                        CHOOSE k \in 1..Len(schema_rows) :
                            /\ schema_rows[k].column_name = alias
                            /\ \A j \in 1..(k - 1) :
                                  schema_rows[j].column_name # alias])
               ELSE Panic("NotInSchema", alias)
          [] Len(parts) = 2 -> FromTypeHint(alias, parts[1], parts[2], 1)
          [] Len(parts) = 3 ->
               LET last == str_to_lowercase(parts[3])
               IN  IF last = <<"n", "u", "l", "l", "a", "b", "l", "e">>
                   THEN FromTypeHint(alias, parts[1], parts[2], 0)
                   ELSE IF last = <<"n", "o", "t", "_", "n", "u", "l", "l">>
                        THEN FromTypeHint(alias, parts[1], parts[2], 1)
                        ELSE Panic("InvalidHint", alias)
          [] OTHER -> Panic("InvalidHint", alias)

create_fn_argument_type(column_type) ==
    CASE column_type = BLOB -> "Vec<u8>"
      [] column_type = INTEGER -> "i64"
      [] column_type \in {REAL, DOUBLE} -> "f64"
      [] column_type = TEXT -> "impl ToString"
      [] OTHER -> "unimplemented"

field_type_from_datatype_name(datatype_name) ==
    CASE datatype_name = BLOB -> "Vec<u8>"
      [] datatype_name = INTEGER -> "i64"
      [] datatype_name \in {REAL, DOUBLE} -> "f64"
      [] datatype_name = TEXT -> "String"
      [] OTHER -> "todo"

\* The binding expression, by its shape.
create_binding_value(field_type, not_null) ==
    CASE field_type \in {BLOB, INTEGER, REAL, DOUBLE} -> "into"
      [] field_type = TEXT ->
            CASE not_null = 1 -> "to_string"
              [] not_null = 0 -> "match_option"
              [] OTHER -> "unreachable"
      [] OTHER -> "unimplemented"


NullName == <<>>

RECURSIVE ParameterNamesFrom(_, _, _)
\* The name SQLite keeps for each parameter index of a statement whose
\* parameters are written tokens[i..]: ? takes the next index and has no
\* name, :name takes the index that name already has, or the next one.
ParameterNamesFrom(tokens, i, byIndex) ==
    IF i > Len(tokens)
    THEN byIndex
    ELSE IF tokens[i] = Anonymous
         THEN ParameterNamesFrom(tokens, i + 1, Append(byIndex, NullName))
         ELSE IF \E k \in 1..Len(byIndex) : byIndex[k] = tokens[i]
              THEN ParameterNamesFrom(tokens, i + 1, byIndex)
              ELSE ParameterNamesFrom(tokens, i + 1, Append(byIndex, tokens[i]))

\* sqlite3_bind_parameter_name for index 1..sqlite3_bind_parameter_count.
bind_parameter_name(tokens) == ParameterNamesFrom(tokens, 1, <<>>)

IsNamed(name) == name # NullName

\* Sqlite::bind_param_names: the names that are not null, in index order.
bind_param_names(tokens) == SelectSeq(bind_parameter_name(tokens), IsNamed)

input_column_names(tokens) == bind_param_names(tokens)

\* aliased_column_names: sqlite3_column_name of every result column.
output_column_names(columns) == columns

\* schema_rows gathered from the whole Schema, whatever the statement names.
SchemaRowsFrom_all(schema, table_names, i) ==
    IF i > 1 THEN <<>> ELSE schema[TableT] \o schema[TableU]

RECURSIVE SchemaRowsFrom(_, _, _)
\* The rows of every table name of the statement that the Schema knows.
SchemaRowsFrom(schema, table_names, i) ==
    IF i > Len(table_names)
    THEN <<>>
    ELSE (IF table_names[i] \in DOMAIN schema
          THEN schema[table_names[i]] ELSE <<>>)
         \o SchemaRowsFrom(schema, table_names, i + 1)

\* An accessor argument whose optionality looks at not_null alone.
FnArg_nn(aliases_column_name, schema_rows) ==
    LET t == parse_type_hinted_column_name(aliases_column_name, schema_rows)
    IN  CASE t.kind = "panic" -> t
          [] t.kind = "FromTypeHint" ->
               IF create_fn_argument_type(t.column_type) = "unimplemented"
               THEN Panic("UnsupportedType", aliases_column_name)
               ELSE [kind |-> "arg", name |-> t.alias,
                     type |-> create_fn_argument_type(t.column_type),
                     optional |-> (t.not_null = 0)]
          [] OTHER ->
               IF create_fn_argument_type(t.row.column_type) = "unimplemented"
               THEN Panic("UnsupportedType", aliases_column_name)
               ELSE [kind |-> "arg", name |-> t.row.column_name,
                     type |-> create_fn_argument_type(t.row.column_type),
                     optional |-> (t.row.not_null = 0)]

\* One accessor argument, or the panic that ends the expansion.
FnArg(aliases_column_name, schema_rows) ==
    LET t == parse_type_hinted_column_name(aliases_column_name, schema_rows)
    IN  CASE t.kind = "panic" -> t
          [] t.kind = "FromTypeHint" ->
               IF create_fn_argument_type(t.column_type) = "unimplemented"
               THEN Panic("UnsupportedType", aliases_column_name)
               ELSE [kind |-> "arg", name |-> t.alias,
                     type |-> create_fn_argument_type(t.column_type),
                     optional |-> (t.not_null = 0)]
          [] OTHER ->
               IF create_fn_argument_type(t.row.column_type) = "unimplemented"
               THEN Panic("UnsupportedType", aliases_column_name)
               ELSE [kind |-> "arg", name |-> t.row.column_name,
                     type |-> create_fn_argument_type(t.row.column_type),
                     optional |-> (t.row.pk = 0 /\ t.row.not_null = 0)]

\* One element of the params vector handed to the driver.
Param(aliases_column_name, schema_rows) ==
    LET t == parse_type_hinted_column_name(aliases_column_name, schema_rows)
        ty == IF t.kind = "FromTypeHint" THEN t.column_type
              ELSE t.row.column_type
        nn == IF t.kind = "FromTypeHint" THEN t.not_null ELSE t.row.not_null
    IN  IF t.kind = "panic" THEN t
        ELSE IF create_binding_value(ty, nn) \in {"unimplemented", "unreachable"}
             THEN Panic("UnsupportedType", aliases_column_name)
             ELSE [kind |-> "param",
                   name |-> IF t.kind = "FromTypeHint" THEN t.alias
                            ELSE t.row.column_name,
                   value |-> create_binding_value(ty, nn)]

\* One field of the row struct, with the column name from_row matches on.
StructFieldOf(t, byAlias) ==
    LET ty == IF t.kind = "FromTypeHint" THEN t.column_type
              ELSE t.row.column_type
        nn == IF t.kind = "FromTypeHint" THEN t.not_null ELSE t.row.not_null
        pk == IF t.kind = "FromTypeHint" THEN 0 ELSE t.row.pk
        cn == IF t.kind = "FromTypeHint" THEN t.alias ELSE t.row.column_name
        nm == IF t.kind = "FromTypeHint"
              THEN (IF byAlias THEN t.alias ELSE t.name)
              ELSE t.row.column_name
    IN  IF field_type_from_datatype_name(ty) = "todo"
        THEN Panic("UnsupportedType", cn)
        ELSE IF ~(nn \in {0, 1} /\ pk \in {0, 1})
             THEN Panic("Unreachable", cn)
             ELSE [kind |-> "field", name |-> nm, column |-> cn,
                   type |-> field_type_from_datatype_name(ty),
                   optional |-> (nn = 0 /\ pk = 0)]

\* struct_tokens that names a hinted field by the whole alias.
StructField_alias(t) == StructFieldOf(t, TRUE)

StructField(t) == StructFieldOf(t, FALSE)

\* Index of the first panic in a sequence of outcomes, 0 if none.
FirstPanic(outcomes) ==
    IF \E k \in 1..Len(outcomes) : outcomes[k].kind = "panic"
    THEN CHOOSE k \in 1..Len(outcomes) :
            /\ outcomes[k].kind = "panic"
            /\ \A j \in 1..(k - 1) : outcomes[j].kind # "panic"
    ELSE 0

Generated(args, params, fields) ==
    [ok |-> TRUE, panic |-> <<>>, args |-> args, params |-> params,
     fields |-> fields]

Aborted(p) ==
    [ok |-> FALSE, panic |-> <<p.what, p.name>>, args |-> <<>>,
     params |-> <<>>, fields |-> <<>>]


\* The body of the loop of fn_tokens for one query expression: st.params
\* are the bind parameters as written, st.columns the names of the result
\* columns, st.tables the table names of the statement.
fn_tokens_body(schema, st) ==
    LET names == input_column_names(st.params)
        inputs == [i \in 1..Len(names) |-> replacen(names[i])]
        schema_rows == SchemaRowsFrom(schema, st.tables, 1)
        fn_args == [i \in 1..Len(inputs) |-> FnArg(inputs[i], schema_rows)]
        params == [i \in 1..Len(inputs) |-> Param(inputs[i], schema_rows)]
        outputs == output_column_names(st.columns)
        output_typed ==
            [i \in 1..Len(outputs) |->
                parse_type_hinted_column_name(outputs[i], schema_rows)]
        struct_fields ==
            [i \in 1..Len(outputs) |-> StructField(output_typed[i])]
    IN  IF FirstPanic(fn_args) # 0
        THEN Aborted(fn_args[FirstPanic(fn_args)])
        ELSE IF FirstPanic(params) # 0
        THEN Aborted(params[FirstPanic(params)])
        ELSE IF FirstPanic(output_typed) # 0
        THEN Aborted(output_typed[FirstPanic(output_typed)])
        ELSE IF FirstPanic(struct_fields) # 0
        THEN Aborted(struct_fields[FirstPanic(struct_fields)])
        ELSE Generated(fn_args, params, struct_fields)

\* Sqlite::prepare: params[i] goes to parameter index i + 1; an index past
\* the vector keeps no value.
BoundAt(params, index) ==
    IF index <= Len(params) THEN params[index].name ELSE NullName

NameSeqs(set, n) == [1..n -> set]

TableLists == {<<TableT>>, <<TableU>>, <<TableT, TableU>>}

InitInfer ==
    /\ \E np \in 0..MaxNames : \E nc \in 0..(MaxNames - np) :
          \E ps \in NameSeqs(ParamTokens, np), cols \in NameSeqs(ColumnNames, nc),
             ts \in TableLists :
              call = [fn |-> "fn_tokens", params |-> ps, columns |-> cols,
                      tables |-> ts]
    /\ callPhase = "input"
    /\ ret = Generated(<<>>, <<>>, <<>>)
    /\ namesOk = FALSE
    /\ GenIdle
    /\ MigOff
    /\ DrvOff

\* fn_tokens on one query expression.
Infer ==
    /\ callPhase = "input"
    /\ call.fn = "fn_tokens"
    /\ ret' = fn_tokens_body(InferSchema, call)
    /\ callPhase' = "done"
    /\ UNCHANGED <<call, namesOk>>
    /\ UNCHANGED migVars
    /\ UNCHANGED genVars
    /\ UNCHANGED drvVars

NextInfer == Infer

SpecInfer == InitInfer /\ [][NextInfer]_vars

\* ------------------------------------------------- the inference claims
Inferred == callPhase = "done" /\ call.fn = "fn_tokens"

\* The name has a hint: "__" occurs in it.
HasHint(name) ==
    \E i \in 1..(Len(name) - 1) : name[i] = "_" /\ name[i + 1] = "_"

\* The name up to its first "__".
StripHint(name) ==
    IF HasHint(name)
    THEN SubSeq(name, 1,
                (CHOOSE i \in 1..(Len(name) - 1) :
                    /\ name[i] = "_" /\ name[i + 1] = "_"
                    /\ \A j \in 1..(i - 1) : ~(name[j] = "_" /\ name[j + 1] = "_"))
                - 1)
    ELSE name

\* The parameter names of the call, by index, without their colon.
ParamNames ==
    LET byIndex == bind_parameter_name(call.params)
    IN  [i \in 1..Len(byIndex) |->
            IF byIndex[i] = NullName THEN NullName ELSE Tail(byIndex[i])]


\* C12: the accessor has exactly one parameter per bind parameter the
\* statement declares, in parameter index order 1..N, and its i-th argument
\* is the value bound to parameter index i; a name repeated in the SQL is
\* one parameter, and :id and :id__INTEGER are two.
C12_OneArgPerParameter ==
    (Inferred /\ ret.ok) =>
        /\ Len(ret.args) = Len(ParamNames)
        /\ \A i \in 1..Len(ParamNames) :
              /\ ParamNames[i] # NullName => ret.args[i].name = ParamNames[i]
              /\ BoundAt(ret.params, i) = ret.args[i].name

\* C13: a statement whose placeholders are all anonymous ? yields an
\* accessor with one argument per placeholder.
C13_AnonymousPlaceholders ==
    (Inferred /\ ret.ok /\ \A i \in 1..Len(call.params) :
                               call.params[i] = Anonymous)
        => Len(ret.args) = Len(call.params)


\* C14: the row type has exactly one field per result column the Oracle
\* reports for the statement, in the Oracle's order, each named by the
\* column's name with any hint suffix removed.
C14_OneFieldPerColumn ==
    (Inferred /\ ret.ok) =>
        /\ Len(ret.fields) = Len(call.columns)
        /\ \A i \in 1..Len(call.columns) :
              ret.fields[i].name = StripHint(call.columns[i])

\* A row type was generated for three result columns, hinted and not.
C14_Witness ==
    /\ Inferred /\ ret.ok
    /\ Len(call.columns) = 3 /\ Len(ret.fields) = 3
    /\ HasHint(call.columns[1])
    /\ ~HasHint(call.columns[2])
    /\ call.columns[3] # call.columns[2]

\* The Schema Columns of the tables the statement of the call names.
CallColumns ==
    UNION {{InferSchema[call.tables[i]][k] :
                k \in 1..Len(InferSchema[call.tables[i]])} :
           i \in 1..Len(call.tables)}

\* The names of the named parameters, by position among them.
NamedParams == SelectSeq(ParamNames, IsNamed)

\* C15: a field or argument derived from a Schema Column is nullable
\* exactly when the column is neither not_null nor part of the primary key,
\* for each of the four combinations; a primary key column is never nullable.
C15_NullableIffNotNullNorPk ==
    (Inferred /\ ret.ok) =>
        /\ \A i \in 1..Len(ret.fields) : \A r \in CallColumns :
              (~HasHint(call.columns[i]) /\ r.column_name = call.columns[i])
                  => /\ ret.fields[i].optional <=> (r.not_null = 0 /\ r.pk = 0)
                     /\ r.pk # 0 => ~ret.fields[i].optional
        /\ \A i \in 1..Len(ret.args) : \A r \in CallColumns :
              (~HasHint(NamedParams[i]) /\ r.column_name = NamedParams[i])
                  => /\ ret.args[i].optional <=> (r.not_null = 0 /\ r.pk = 0)
                     /\ r.pk # 0 => ~ret.args[i].optional

\* Arguments from a nullable column and from a nullable primary key, and a
\* field from a not-null primary key, were generated.
C15_Witness ==
    /\ Inferred /\ ret.ok
    /\ call.params = <<<<Colon>> \o s_note, <<Colon>> \o s_id>>
    /\ call.columns = <<s_code>>
    /\ ret.args[1].optional /\ ~ret.args[2].optional
    /\ ~ret.fields[1].optional


HintTypes == {TEXT, INTEGER, REAL, DOUBLE, BLOB}

\* What follows the first "__" of a hinted name.
HintRest(name) == SubSeq(name, Len(StripHint(name)) + 3, Len(name))

EqIgnoreCase(a, b) ==
    /\ Len(a) = Len(b)
    /\ \A i \in 1..Len(a) : to_lowercase(a[i]) = to_lowercase(b[i])

\* name is <segment>__ty
IsPlainHint(name, ty) == HasHint(name) /\ HintRest(name) = ty

\* name is <segment>__ty__<word>, word compared without regard to case
IsWordHint(name, ty, word) ==
    /\ HasHint(name)
    /\ Len(HintRest(name)) > Len(ty) + 2
    /\ SubSeq(HintRest(name), 1, Len(ty) + 2) = ty \o Sep
    /\ EqIgnoreCase(SubSeq(HintRest(name), Len(ty) + 3, Len(HintRest(name))),
                    word)

IsNullableHint(name, ty) == IsWordHint(name, ty, <<"n", "u", "l", "l", "a", "b", "l", "e">>)

IsNotNullHint(name, ty) == IsWordHint(name, ty, <<"n", "o", "t", "_", "n", "u", "l", "l">>)

WellFormedHint(name, ty) ==
    IsPlainHint(name, ty) \/ IsNullableHint(name, ty) \/ IsNotNullHint(name, ty)

\* The Rust type a hinted TYPE stands for, in a field and in an argument.
HintedFieldType(ty) ==
    CASE ty = TEXT -> "String" [] ty = INTEGER -> "i64"
      [] ty = BLOB -> "Vec<u8>" [] OTHER -> "f64"

HintedArgType(ty) ==
    CASE ty = TEXT -> "impl ToString" [] ty = INTEGER -> "i64"
      [] ty = BLOB -> "Vec<u8>" [] OTHER -> "f64"

\* C16: for a hinted name the hint alone decides type and nullability,
\* whatever the schema says of a column of that name: name__TYPE is
\* non-nullable, name__TYPE__NULLABLE nullable, name__TYPE__NOT_NULL
\* non-nullable, the last segment read without regard to case; generation
\* never fails on such a name.
C16_HintDecides ==
    Inferred =>
        \A ty \in HintTypes :
            /\ \A i \in 1..Len(call.columns) :
                  WellFormedHint(call.columns[i], ty) =>
                      /\ ret.ok =>
                            /\ ret.fields[i].type = HintedFieldType(ty)
                            /\ ret.fields[i].optional
                                  <=> IsNullableHint(call.columns[i], ty)
                      /\ ~ret.ok => ret.panic[2] # call.columns[i]
            /\ \A i \in 1..Len(NamedParams) :
                  WellFormedHint(NamedParams[i], ty) =>
                      /\ ret.ok =>
                            /\ ret.args[i].type = HintedArgType(ty)
                            /\ ret.args[i].optional
                                  <=> IsNullableHint(NamedParams[i], ty)
                      /\ ~ret.ok => ret.panic[2] # NamedParams[i]

\* name__TEXT__NuLLaBLe gave a nullable String field although the schema's
\* name is not null, and note__REAL__NOT_NULL a non-nullable f64 argument
\* although the schema's note is nullable TEXT.
C16_Witness ==
    /\ Inferred /\ ret.ok
    /\ call.columns = <<s_name \o Sep \o TEXT \o Sep \o <<"N", "u", "L", "L", "a", "B", "L", "e">>, s_name>>
    /\ call.params = <<<<Colon>> \o s_note \o Sep \o REAL \o Sep \o <<"N", "O", "T", "_", "N", "U", "L", "L">>>>
    /\ ret.fields[1].optional /\ ret.fields[1].type = "String"
    /\ ~ret.fields[2].optional
    /\ ~ret.args[1].optional /\ ret.args[1].type = "f64"

\* The names of the call: named parameters and result columns.
CallNames ==
    {NamedParams[i] : i \in 1..Len(NamedParams)}
        \cup {call.columns[i] : i \in 1..Len(call.columns)}

\* C17: generation fails when a name contains "__" and is neither
\* segment__TYPE nor segment__TYPE__NULLABILITY: four or more segments, a
\* third segment other than nullable / not_null, or a TYPE outside TEXT,
\* INTEGER, REAL, DOUBLE, BLOB.
C17_BadHintAborts ==
    (Inferred /\ \E name \in CallNames :
                    /\ HasHint(name)
                    /\ \A ty \in HintTypes : ~WellFormedHint(name, ty))
        => ~ret.ok

\* The expansion stopped on a result column whose third segment is neither
\* nullable nor not_null, the only flaw of the statement.
C17_Witness ==
    /\ Inferred /\ ~ret.ok
    /\ call.params = <<<<Colon>> \o s_id>>
    /\ call.tables = <<TableT>>
    /\ call.columns = <<s_name, s_n \o Sep \o TEXT \o Sep \o <<"m", "a", "y", "b", "e">>>>
    /\ ret.panic = <<"InvalidHint", call.columns[2]>>

\* Hint-less names of the call that are no column of the statement's tables.
Unresolved ==
    {name \in CallNames :
        /\ ~HasHint(name)
        /\ \A r \in CallColumns : r.column_name # name}

\* C18: a hint-less input or output name that matches no column of the
\* tables the statement references aborts generation, even when another
\* table of the schema has a column of that name, and the error names it.
C18_UnknownNameAborts ==
    (Inferred /\ Unresolved # {}) =>
        /\ ~ret.ok
        /\ ret.panic[1] = "NotInSchema" => ret.panic[2] \in Unresolved
        /\ (\A name \in CallNames : ~HasHint(name)) =>
              (ret.panic[1] = "NotInSchema" /\ ret.panic[2] \in Unresolved)

\* code is a column of U only; a statement over T alone that reports a
\* result column of that name was refused with an error naming code.
C18_Witness ==
    /\ Inferred /\ ~ret.ok
    /\ call.tables = <<TableT>>
    /\ call.params = <<<<Colon>> \o s_name>>
    /\ call.columns = <<s_id, s_code>>
    /\ ret.panic = <<"NotInSchema", s_code>>


\* ============================================ entity types from the schema
MaxDdl == 3

TableSqliteLog == <<"S", "q", "l", "i", "t", "e", "L", "o", "g">>
SqliteSequence == <<"s", "q", "l", "i", "t", "e", "_", "s", "e", "q", "u", "e", "n", "c", "e">>
\* The pattern of "m.tbl_name not like 'sqlite_%'".
SqlitePattern == <<"s", "q", "l", "i", "t", "e", "_", "%">>
SqlitePrefix == <<"s", "q", "l", "i", "t", "e", "_">>

Col(c, ty, nn, pk) == [name |-> c, type |-> ty, not_null |-> nn, pk |-> pk]

\* Column lists of the create table statements:
\*   (id integer primary key, name text not null)
\*   (id integer primary key autoincrement, code text)
\*   (code text not null, seq integer not null, primary key (code, seq))
CreateBodies ==
    { [cols |-> <<Col(s_id, INTEGER, 0, 1), Col(s_name, TEXT, 1, 0)>>,
       autoincrement |-> FALSE],
      [cols |-> <<Col(s_id, INTEGER, 0, 1), Col(s_code, TEXT, 0, 0)>>,
       autoincrement |-> TRUE],
      [cols |-> <<Col(s_code, TEXT, 1, 1), Col(s_seq, INTEGER, 1, 2)>>,
       autoincrement |-> FALSE] }

DdlTables == {TableT, TableSqliteLog}

\* The statements a migration expression is made of.
DdlStmts ==
    {[op |-> "create", tbl |-> t, body |-> b] :
        t \in DdlTables, b \in CreateBodies}
    \cup {[op |-> "add", tbl |-> t, col |-> Col(s_note, TEXT, 0, 0)] :
            t \in DdlTables}
    \cup {[op |-> "drop", tbl |-> t, col |-> c] :
            t \in DdlTables, c \in {s_note, s_name}}

HasColumn(cols, c) == \E k \in 1..Len(cols) : cols[k].name = c

WithoutColumn(cols, c) == SelectSeq(cols, LAMBDA x : x.name # c)

\* What the Oracle makes of one statement: the tables of sqlite_master with
\* their columns in cid order, or a failure.
ApplyDdl(db, st) ==
    CASE st.op = "create" ->
            IF st.tbl \in DOMAIN db
            THEN [ok |-> FALSE, db |-> db]
            ELSE [ok |-> TRUE,
                  db |-> [t \in DOMAIN db \cup {st.tbl}
                             \cup (IF st.body.autoincrement
                                   THEN {SqliteSequence} ELSE {}) |->
                            IF t = st.tbl THEN st.body.cols
                            ELSE IF t \in DOMAIN db THEN db[t]
                            ELSE <<Col(s_name, <<>>, 0, 0),
                                   Col(s_seq, <<>>, 0, 0)>>]]
      [] st.op = "add" ->
            IF st.tbl \in DOMAIN db /\ ~HasColumn(db[st.tbl], st.col.name)
            THEN [ok |-> TRUE,
                  db |-> [db EXCEPT ![st.tbl] = Append(@, st.col)]]
            ELSE [ok |-> FALSE, db |-> db]
      [] OTHER ->
            IF /\ st.tbl \in DOMAIN db
               /\ \E k \in 1..Len(db[st.tbl]) :
                     db[st.tbl][k].name = st.col /\ db[st.tbl][k].pk = 0
               /\ Len(db[st.tbl]) > 1
            THEN [ok |-> TRUE,
                  db |-> [db EXCEPT ![st.tbl] = WithoutColumn(@, st.col)]]
            ELSE [ok |-> FALSE, db |-> db]

RECURSIVE OracleAfter(_, _, _)
\* The loop of sql_macro over migrate_expr.statements, from statement i on.
OracleAfter(db, ddl, i) ==
    IF i > Len(ddl)
    THEN [ok |-> TRUE, db |-> db]
    ELSE IF ApplyDdl(db, ddl[i]).ok
         THEN OracleAfter(ApplyDdl(db, ddl[i]).db, ddl, i + 1)
         ELSE [ok |-> FALSE, db |-> db]

RECURSIVE Like(_, _)
\* SQLite's LIKE: % is any run of characters, _ any one character, letters
\* compare without regard to case.
Like(pattern, str) ==
    IF pattern = <<>>
    THEN str = <<>>
    ELSE IF Head(pattern) = "%"
         THEN Like(Tail(pattern), str)
                \/ (str # <<>> /\ Like(pattern, Tail(str)))
         ELSE /\ str # <<>>
              /\ \/ Head(pattern) = "_"
                 \/ to_lowercase(Head(pattern)) = to_lowercase(Head(str))
              /\ Like(Tail(pattern), Tail(str))

\* schema(db): the rows of the query folded into table -> rows.
schema(db) ==
    [t \in {x \in DOMAIN db : ~Like(SqlitePattern, x)} |->
        [k \in 1..Len(db[t]) |->
            SchemaRow(t, db[t][k].name, db[t][k].type, db[t][k].not_null,
                      db[t][k].pk)]]

\* The fields struct_tokens gives the entity type of table t.
EntityFields(sch, t) ==
    [k \in 1..Len(sch[t]) |-> StructField(FromSchemaRow(sch[t][k]))]

\* structs_tokens: one struct per table of the Schema.
structs_tokens(sch) ==
    IF \E t \in DOMAIN sch : FirstPanic(EntityFields(sch, t)) # 0
    THEN LET t == CHOOSE t \in DOMAIN sch : FirstPanic(EntityFields(sch, t)) # 0
             p == EntityFields(sch, t)[FirstPanic(EntityFields(sch, t))]
         IN  [ok |-> FALSE, panic |-> <<p.what, p.name>>, structs |-> {}]
    ELSE [ok |-> TRUE, panic |-> <<>>,
          structs |-> {[ident |-> t, fields |-> EntityFields(sch, t)] :
                          t \in DOMAIN sch}]

\* sql_macro from the Oracle's replay of the migration to the entity types.
EntityTypes(ddl) ==
    LET oracle == OracleAfter(<<>>, ddl, 1)
    IN  IF ~oracle.ok
        THEN [ok |-> FALSE, panic |-> <<"Ddl", <<>>>>, structs |-> {}]
        ELSE structs_tokens(schema(oracle.db))

InitSchema ==
    /\ \E n \in 1..MaxDdl : \E ddl \in [1..n -> DdlStmts] :
          call = [fn |-> "structs_tokens", ddl |-> ddl]
    /\ callPhase = "input"
    /\ ret = [ok |-> TRUE, panic |-> <<>>, structs |-> {}]
    /\ namesOk = FALSE
    /\ GenIdle
    /\ MigOff
    /\ DrvOff

\* sql_macro up to structs_tokens, on a migration expression.
EmitStructs ==
    /\ callPhase = "input"
    /\ call.fn = "structs_tokens"
    /\ ret' = EntityTypes(call.ddl)
    /\ callPhase' = "done"
    /\ UNCHANGED <<call, namesOk>>
    /\ UNCHANGED migVars
    /\ UNCHANGED genVars
    /\ UNCHANGED drvVars

NextSchema == EmitStructs

SpecSchema == InitSchema /\ [][NextSchema]_vars

\* The name starts with sqlite_ (letters in either case).
HasSqlitePrefix(t) ==
    /\ Len(t) >= Len(SqlitePrefix)
    /\ EqIgnoreCase(SubSeq(t, 1, Len(SqlitePrefix)), SqlitePrefix)

\* C19: for every table that exists once the migration DDL has been applied
\* in order and whose name does not start with sqlite_, exactly one entity
\* type of that name is emitted; its fields are the table's live columns in
\* declaration order, a column added by ADD COLUMN last and a dropped one
\* absent, each nullable as the schema has it.
C19_EntityPerTable ==
    (callPhase = "done" /\ call.fn = "structs_tokens"
        /\ OracleAfter(<<>>, call.ddl, 1).ok) =>
        LET db == OracleAfter(<<>>, call.ddl, 1).db
        IN  \A t \in DOMAIN db :
                ~HasSqlitePrefix(t) =>
                    /\ Cardinality({e \in ret.structs : e.ident = t}) = 1
                    /\ \A e \in ret.structs :
                          e.ident = t =>
                             /\ Len(e.fields) = Len(db[t])
                             /\ \A k \in 1..Len(db[t]) :
                                   /\ e.fields[k].name = db[t][k].name
                                   /\ e.fields[k].optional
                                         <=> (db[t][k].not_null = 0
                                              /\ db[t][k].pk = 0)


\* ====================================================== the emitted from_row
MaxPairs == 3

\* static_sqlite::Value, the payload written as a string.
Values ==
    { [tag |-> "Text", v |-> "a"], [tag |-> "Integer", v |-> "7"],
      [tag |-> "Real", v |-> "1.5"], [tag |-> "Blob", v |-> "[1]"],
      [tag |-> "Null", v |-> ""] }

\* The row types fn_tokens emits for
\*   select id, note, name as name__TEXT__NuLLaBLe from T
\*   select name, note as note__REAL__NOT_NULL from T
RowStructs ==
    { fn_tokens_body(InferSchema,
          [params |-> <<>>, tables |-> <<TableT>>,
           columns |-> <<s_id, s_note,
                         s_name \o Sep \o TEXT \o Sep \o <<"N", "u", "L", "L", "a", "B", "L", "e">>>>]).fields,
      fn_tokens_body(InferSchema,
          [params |-> <<>>, tables |-> <<TableT>>,
           columns |-> <<s_name,
                         s_note \o Sep \o REAL \o Sep \o <<"N", "O", "T", "_", "N", "U", "L", "L">>>>]).fields }

\* Column names a row handed to from_row can carry.
PairNames ==
    { s_id, s_note, s_name, s_code,
      s_name \o Sep \o TEXT \o Sep \o <<"N", "u", "L", "L", "a", "B", "L", "e">>,
      s_note \o Sep \o REAL \o Sep \o <<"N", "O", "T", "_", "N", "U", "L", "L">> }

Pairs == {[name |-> n, value |-> v] : n \in PairNames, v \in Values}

\* The Value variant a Rust type converts from.
VariantOf(type) ==
    CASE type = "String" -> "Text" [] type = "i64" -> "Integer"
      [] type = "f64" -> "Real" [] OTHER -> "Blob"

\* Default::default() of a field.
DefaultOf(field) ==
    IF field.optional
    THEN [opt |-> "None", v |-> ""]
    ELSE [opt |-> "Plain",
          v |-> CASE field.type = "String" -> ""
                  [] field.type = "i64" -> "0"
                  [] field.type = "f64" -> "0.0"
                  [] OTHER -> "[]"]

\* try_into that turns Null into the default of a field that is no Option.
try_into_null(value, field) ==
    IF value.tag = VariantOf(field.type)
    THEN [ok |-> TRUE,
          cell |-> [opt |-> IF field.optional THEN "Some" ELSE "Plain",
                    v |-> value.v]]
    ELSE IF value.tag = "Null"
         THEN [ok |-> TRUE, cell |-> DefaultOf(field)]
         ELSE [ok |-> FALSE, cell |-> DefaultOf(field)]

\* TryFrom<Value> for T and for Option<T>.
try_into(value, field) ==
    IF value.tag = VariantOf(field.type)
    THEN [ok |-> TRUE,
          cell |-> [opt |-> IF field.optional THEN "Some" ELSE "Plain",
                    v |-> value.v]]
    ELSE IF field.optional /\ value.tag = "Null"
         THEN [ok |-> TRUE, cell |-> [opt |-> "None", v |-> ""]]
         ELSE [ok |-> FALSE, cell |-> DefaultOf(field)]

\* The arm of the emitted match a column name takes: the first field whose
\* literal it equals, 0 for the _ arm.
MatchArm(fields, column) ==
    IF \E k \in 1..Len(fields) : fields[k].column = column
    THEN CHOOSE k \in 1..Len(fields) :
            /\ fields[k].column = column
            /\ \A j \in 1..(k - 1) : fields[j].column # column
    ELSE 0

RECURSIVE FromRowLoop(_, _, _, _)
\* for (column, value) in columns { match column.as_str() { ... } }
FromRowLoop(fields, columns, i, row) ==
    IF i > Len(columns)
    THEN [ok |-> TRUE, row |-> row, err |-> <<>>]
    ELSE LET k == MatchArm(fields, columns[i].name)
         IN  IF k = 0
             THEN FromRowLoop(fields, columns, i + 1, row)
             ELSE IF try_into(columns[i].value, fields[k]).ok
                  THEN FromRowLoop(fields, columns, i + 1,
                          [row EXCEPT ![k] =
                              try_into(columns[i].value, fields[k]).cell])
                  ELSE [ok |-> FALSE, row |-> <<>>,
                        err |-> <<"Sqlite", "column type mismatch">>]

\* The from_row struct_tokens emits for a row type.
from_row(fields, columns) ==
    FromRowLoop(fields, columns, 1,
                [k \in 1..Len(fields) |-> DefaultOf(fields[k])])

InitFromRow ==
    /\ \E n \in 0..MaxPairs : \E cols \in [1..n -> Pairs], fs \in RowStructs :
          call = [fn |-> "from_row", fields |-> fs, columns |-> cols]
    /\ callPhase = "input"
    /\ ret = [ok |-> TRUE, row |-> <<>>, err |-> <<>>]
    /\ namesOk = FALSE
    /\ GenIdle
    /\ MigOff
    /\ DrvOff

\* T::from_row(values)
FromRow ==
    /\ callPhase = "input"
    /\ call.fn = "from_row"
    /\ ret' = from_row(call.fields, call.columns)
    /\ callPhase' = "done"
    /\ UNCHANGED <<call, namesOk>>
    /\ UNCHANGED migVars
    /\ UNCHANGED genVars
    /\ UNCHANGED drvVars

NextFromRow == FromRow

SpecFromRow == InitFromRow /\ [][NextFromRow]_vars

\* The pairs of the call whose column name is that of field k.
Occurrences(k) ==
    {i \in 1..Len(call.columns) : call.columns[i].name = call.fields[k].column}

\* The value can be converted to the field's type.
Convertible(value, field) ==
    \/ value.tag = VariantOf(field.type)
    \/ field.optional /\ value.tag = "Null"

\* C20: from_row sets each field whose column name occurs among the pairs
\* from the matching value, ignores a pair whose name is no field's, leaves
\* the other fields at their default, and fails only when a matched value
\* cannot be converted to its field's type.
C20_FromRow ==
    (callPhase = "done" /\ call.fn = "from_row") =>
        /\ ret.ok <=>
              \A k \in 1..Len(call.fields) : \A i \in Occurrences(k) :
                  Convertible(call.columns[i].value, call.fields[k])
        /\ ret.ok =>
              \A k \in 1..Len(call.fields) :
                  IF Occurrences(k) = {}
                  THEN ret.row[k] = DefaultOf(call.fields[k])
                  ELSE LET i == CHOOSE i \in Occurrences(k) :
                                   \A j \in Occurrences(k) : j <= i
                       IN  /\ ret.row[k].v = call.columns[i].value.v
                              \/ call.columns[i].value.tag = "Null"
                           /\ ret.row[k].opt = "None"
                                 <=> call.columns[i].value.tag = "Null"

\* from_row set id from its pair, skipped a pair named code, which is no
\* field, and left the two other fields at None.
C20_Witness ==
    /\ callPhase = "done" /\ call.fn = "from_row" /\ ret.ok
    /\ Len(call.fields) = 3
    /\ call.columns = <<[name |-> s_code, value |-> [tag |-> "Text", v |-> "a"]],
                        [name |-> s_id, value |-> [tag |-> "Integer", v |-> "7"]]>>
    /\ ret.row[1] = [opt |-> "Plain", v |-> "7"]
    /\ ret.row[2] = [opt |-> "None", v |-> ""]
    /\ ret.row[3] = [opt |-> "None", v |-> ""]


\* ============================================ the driver: statement handles
MaxSteps == 2
MaxNones == 2

DriverTapes(n) ==
    {[prepares |-> p, rows |-> r, final |-> f] :
        p \in BOOLEAN, r \in RowSeqs(n),
        f \in {<<>>} \cup {<<m>> : m \in ErrMsgs}}

\* A handle sqlite3_prepare_v2 returned, with the calls made on it so far.
Handle(by) == [by |-> by, steps |-> 0, finalized |-> 0]

Stepped(h, n) == [h EXCEPT !.steps = @ + n]

Finalized(h) == [h EXCEPT !.finalized = @ + 1]

\* sqlite3_errmsg as one string.
ErrText(final) == final[1][1] \o final[1][2]

\* One connection, one handle to it, as Sqlite::open leaves them.
Opened == [handles |-> {1}, dropped |-> {}, open |-> TRUE, closeCalls |-> 0,
           unfinalized |-> 0, misuse |-> FALSE, savepoints |-> <<>>,
           events |-> <<"open">>]

InitDriver ==
    /\ \E n \in 0..MaxSteps : tape \in DriverTapes(n)
    /\ prepared = <<>>
    /\ drvOp = "-"
    /\ drvPhase = "ready"
    /\ drvRet = Ok(<<>>)
    /\ iter = NoIter
    /\ conn = Opened
    /\ namesOk = FALSE
    /\ GenIdle
    /\ MigOff
    /\ CallIdle

\* What every operation leaves alone.
DriverFrame ==
    /\ UNCHANGED <<tape, conn, namesOk>>
    /\ UNCHANGED migVars
    /\ UNCHANGED genVars
    /\ UNCHANGED callVars

\* self.prepare(sql, params)? failed: the operation returns its error.
PrepareFailed(op) ==
    /\ ~tape.prepares
    /\ drvOp' = op
    /\ drvRet' = Err("Sqlite", "prepare")
    /\ drvPhase' = "done"
    /\ UNCHANGED <<prepared, iter>>

\* An operation that ran from prepare to return in one call.
Returned(op, handle, res) ==
    /\ drvOp' = op
    /\ prepared' = Append(prepared, handle)
    /\ drvRet' = res
    /\ drvPhase' = "done"
    /\ UNCHANGED iter

\* Sqlite::execute: one step; SQLITE_ROW or SQLITE_DONE goes on to
\* sqlite3_finalize, anything else returns the message as Error::Sqlite.
Execute ==
    /\ drvPhase = "ready"
    /\ \/ PrepareFailed("execute")
       \/ /\ tape.prepares
          /\ IF tape.rows # <<>> \/ tape.final = <<>>
             THEN Returned("execute",
                           Finalized(Stepped(Handle("execute"), 1)), Ok(<<>>))
             ELSE Returned("execute", Stepped(Handle("execute"), 1),
                           Err("Sqlite", ErrText(tape.final)))
    /\ DriverFrame

\* The handle of a loop "while sqlite3_step(stmt) == SQLITE_ROW" whose body
\* returns with ? on a row that cannot be converted.
LoopHandle(op, rows) ==
    IF FirstBad(rows) # 0
    THEN Stepped(Handle(op), FirstBad(rows))
    ELSE Finalized(Stepped(Handle(op), Len(rows) + 1))

\* Sqlite::query
Query ==
    /\ drvPhase = "ready"
    /\ \/ PrepareFailed("query")
       \/ /\ tape.prepares
          /\ Returned("query", LoopHandle("query", tape.rows), query(tape))
    /\ DriverFrame

\* Sqlite::query_first
QueryFirstOp ==
    /\ drvPhase = "ready"
    /\ \/ PrepareFailed("query_first")
       \/ /\ tape.prepares
          /\ Returned("query_first", LoopHandle("query_first", tape.rows),
                      query_first(tape))
    /\ DriverFrame

\* Sqlite::rows: the loop of query without from_row.
Rows ==
    /\ drvPhase = "ready"
    /\ \/ PrepareFailed("rows")
       \/ /\ tape.prepares
          /\ Returned("rows",
                      Finalized(Stepped(Handle("rows"), Len(tape.rows) + 1)),
                      IF finalize_statement(tape.final).ok
                      THEN Ok(tape.rows)
                      ELSE finalize_statement(tape.final))
    /\ DriverFrame

\* Sqlite::bind_param_names: prepare, read the names, self.finalize.
BindParamNames ==
    /\ drvPhase = "ready"
    /\ \/ PrepareFailed("bind_param_names")
       \/ /\ tape.prepares
          /\ Returned("bind_param_names",
                      Finalized(Handle("bind_param_names")), Ok(<<>>))
    /\ DriverFrame

\* Sqlite::column_names, aliased_column_names, table_names: prepare, read
\* the names, return.
ColumnNamesOp ==
    /\ drvPhase = "ready"
    /\ \E op \in {"column_names", "aliased_column_names", "table_names"} :
          \/ PrepareFailed(op)
          \/ /\ tape.prepares
             /\ Returned(op, Handle(op), Ok(<<>>))
    /\ DriverFrame


\* Savepoint::new: prepares "savepoint <name>" and keeps only the name.
SavepointNew ==
    /\ drvPhase = "ready"
    /\ \/ PrepareFailed("Savepoint::new")
       \/ /\ tape.prepares
          /\ drvOp' = "Savepoint::new"
          /\ prepared' = Append(prepared, Handle("Savepoint::new"))
          /\ drvRet' = Ok(<<>>)
          /\ drvPhase' = "scoped"
          /\ UNCHANGED iter
    /\ DriverFrame

\* Drop for Savepoint: self.release().expect(..); release prepares
\* "release savepoint <name>" and returns.
SavepointDrop ==
    /\ drvPhase = "scoped"
    /\ \E prepares \in BOOLEAN :
          IF prepares
          THEN /\ prepared' = Append(prepared, Handle("Savepoint::release"))
               /\ drvRet' = Ok(<<>>)
          ELSE /\ prepared' = prepared
               /\ drvRet' = Err("Panic", "release savepoint failed")
    /\ drvPhase' = "done"
    /\ UNCHANGED <<drvOp, iter>>
    /\ DriverFrame

None == <<"None">>

Some(x) == <<"Some", x>>

\* next that steps again after SQLITE_DONE.
next_restep(it, tp) ==
    IF it.finished
    THEN [it |-> it, item |-> None, stepped |-> FALSE]
    ELSE IF it.pos < Len(tp.rows)
         THEN IF tp.rows[it.pos + 1] = "bad"
              THEN [it |-> [it EXCEPT !.finished = TRUE, !.pos = @ + 1],
                    item |-> Some(Err("Sqlite", "column type mismatch")),
                    stepped |-> TRUE]
              ELSE [it |-> [it EXCEPT !.pos = @ + 1],
                    item |-> Some(Ok(tp.rows[it.pos + 1])),
                    stepped |-> TRUE]
         ELSE IF tp.final = <<>>
              THEN [it |-> it, item |-> None, stepped |-> TRUE]
              ELSE [it |-> [it EXCEPT !.finished = TRUE],
                    item |-> Some(Err("Sqlite", ErrText(tp.final))),
                    stepped |-> TRUE]

\* Iterator::next for SqliteIterator: the iterator after the call, the item
\* returned, and whether sqlite3_step was called.
next(it, tp) ==
    IF it.finished
    THEN [it |-> it, item |-> None, stepped |-> FALSE]
    ELSE IF it.pos < Len(tp.rows)
         THEN IF tp.rows[it.pos + 1] = "bad"
              THEN [it |-> [it EXCEPT !.finished = TRUE, !.pos = @ + 1],
                    item |-> Some(Err("Sqlite", "column type mismatch")),
                    stepped |-> TRUE]
              ELSE [it |-> [it EXCEPT !.pos = @ + 1],
                    item |-> Some(Ok(tp.rows[it.pos + 1])),
                    stepped |-> TRUE]
         ELSE IF tp.final = <<>>
              THEN [it |-> [it EXCEPT !.finished = TRUE],
                    item |-> None, stepped |-> TRUE]
              ELSE [it |-> [it EXCEPT !.finished = TRUE],
                    item |-> Some(Err("Sqlite", ErrText(tp.final))),
                    stepped |-> TRUE]

\* Sqlite::iter: prepare and SqliteIterator::new.
Iter ==
    /\ drvPhase = "ready"
    /\ \/ PrepareFailed("iter")
       \/ /\ tape.prepares
          /\ drvOp' = "iter"
          /\ prepared' = Append(prepared, Handle("iter"))
          /\ iter' = [NoIter EXCEPT !.active = TRUE,
                                    !.stmt = Len(prepared) + 1]
          /\ drvRet' = Ok(<<>>)
          /\ drvPhase' = "iterating"
    /\ DriverFrame

NonesIn(items) == Cardinality({k \in 1..Len(items) : items[k] = None})

\* One call of next by the iterator's owner.
IterNext ==
    /\ drvPhase = "iterating"
    /\ NonesIn(iter.items) < MaxNones
    /\ LET n == next(iter, tape)
       IN  /\ iter' = [n.it EXCEPT
                          !.items = Append(@, n.item),
                          !.stepsAfterNone =
                              IF n.stepped /\ NonesIn(iter.items) > 0
                              THEN @ + 1 ELSE @]
           /\ prepared' = [prepared EXCEPT ![iter.stmt] =
                              IF n.stepped THEN Stepped(@, 1) ELSE @]
    /\ UNCHANGED <<drvOp, drvPhase, drvRet>>
    /\ DriverFrame

\* Drop for SqliteIterator, at any point of the iteration.
IterDrop ==
    /\ drvPhase = "iterating"
    /\ prepared' = [prepared EXCEPT ![iter.stmt] = Finalized(@)]
    /\ iter' = [iter EXCEPT !.active = FALSE]
    /\ drvPhase' = "done"
    /\ UNCHANGED <<drvOp, drvRet>>
    /\ DriverFrame

NextDriver ==
    \/ Execute
    \/ Query
    \/ QueryFirstOp
    \/ Rows
    \/ BindParamNames
    \/ ColumnNamesOp
    \/ SavepointNew
    \/ SavepointDrop
    \/ Iter
    \/ IterNext
    \/ IterDrop

SpecDriver == InitDriver /\ [][NextDriver]_vars

\* C21: every statement handle a driver operation prepared has been
\* finalized exactly once by the time the operation has returned, its
\* savepoint has been dropped, or its iterator has been dropped.
C21_FinalizedOnce ==
    drvPhase = "done" =>
        \A k \in 1..Len(prepared) : prepared[k].finalized = 1

\* A savepoint statement takes effect when it is stepped.
SavepointActive ==
    /\ \E k \in 1..Len(prepared) :
          prepared[k].by = "Savepoint::new" /\ prepared[k].steps > 0
    /\ ~\E k \in 1..Len(prepared) :
          prepared[k].by = "Savepoint::release" /\ prepared[k].steps > 0

\* C22: while a Savepoint value is alive a savepoint is active on the
\* connection, and after its drop the savepoint has been released once.
C22_SavepointScoped ==
    /\ drvPhase = "scoped" => SavepointActive
    /\ (drvPhase = "done" /\ drvOp = "Savepoint::new" /\ drvRet.ok
           /\ Len(prepared) > 0) =>
          Cardinality({k \in 1..Len(prepared) :
              prepared[k].by = "Savepoint::release"
              /\ prepared[k].steps > 0}) = 1

UniqueFailure(r) ==
    ~r.ok /\ r.err = <<"Sqlite", UniquePrefix \o "User.name">>

\* C23: no driver operation and no item of the streaming iterator reports
\* a UNIQUE constraint failure as the generic Sqlite(message) error.
C23_UniqueConstraint ==
    /\ drvPhase = "done" => ~UniqueFailure(drvRet)
    /\ \A k \in 1..Len(iter.items) :
          iter.items[k] # None => ~UniqueFailure(iter.items[k][2])


MaxHandles == 3
MaxEvents == 6

InitHandles ==
    /\ conn = Opened
    /\ tape = [prepares |-> FALSE, rows |-> <<>>, final |-> <<>>]
    /\ prepared = <<>>
    /\ drvOp = "-"
    /\ drvPhase = "off"
    /\ drvRet = [ok |-> FALSE, val |-> <<>>, err |-> <<>>]
    /\ iter = NoIter
    /\ namesOk = FALSE
    /\ GenIdle
    /\ MigOff
    /\ CallIdle

HandlesFrame ==
    /\ UNCHANGED <<tape, prepared, drvOp, drvPhase, drvRet, iter, namesOk>>
    /\ UNCHANGED migVars
    /\ UNCHANGED genVars
    /\ UNCHANGED callVars

\* #[derive(Clone)] on Sqlite: a second handle holding the same pointer.
Clone ==
    /\ conn.handles # {}
    /\ Len(conn.events) < MaxEvents
    /\ Cardinality(conn.handles \cup conn.dropped) < MaxHandles
    /\ conn' = [conn EXCEPT
                   !.handles = @ \cup
                       {Cardinality(conn.handles \cup conn.dropped) + 1},
                   !.events = Append(@, "clone")]
    /\ HandlesFrame

\* A driver operation through a live handle: it prepares and steps on the
\* pointer, and leaves its statement unfinalized or not.
Use ==
    /\ Len(conn.events) < MaxEvents
    /\ \E h \in conn.handles : \E leaks \in BOOLEAN :
          conn' = [conn EXCEPT
                      !.misuse = @ \/ ~conn.open,
                      !.unfinalized = IF leaks /\ conn.open THEN @ + 1 ELSE @,
                      !.events = Append(@, IF leaks THEN "use, leak" ELSE "use")]
    /\ HandlesFrame

\* sqlite3_close on a pointer: SQLITE_BUSY, connection left open, while a
\* statement is unfinalized; undefined on a connection already closed.
sqlite3_close(c) ==
    [c EXCEPT !.closeCalls = @ + 1,
              !.misuse = @ \/ ~c.open,
              !.open = IF c.unfinalized > 0 THEN @ ELSE FALSE]

\* Drop for Sqlite
Drop ==
    /\ Len(conn.events) < MaxEvents
    /\ \E h \in conn.handles :
          conn' = [sqlite3_close(conn) EXCEPT
                      !.handles = @ \ {h},
                      !.dropped = @ \cup {h},
                      !.events = Append(@, "drop")]
    /\ HandlesFrame

NextHandles ==
    \/ Clone
    \/ Use
    \/ Drop

SpecHandles == InitHandles /\ [][NextHandles]_vars

\* C30: over any sequence of clone, use and drop of handles, no prepare,
\* step or close happens on a connection already closed, and once every
\* handle is dropped the connection is closed.
C30_ClosedOnce ==
    /\ ~conn.misuse
    /\ conn.handles = {} => ~conn.open


\* ================================================== db_schema and the Oracle
MaxFold == 3

\* (id integer primary key, name text not null) and
\* (id integer primary key, code text)
FoldBodies ==
    [named |-> [cols |-> <<Col(s_id, INTEGER, 0, 1), Col(s_name, TEXT, 1, 0)>>,
                autoincrement |-> FALSE],
     coded |-> [cols |-> <<Col(s_id, INTEGER, 0, 1), Col(s_code, TEXT, 0, 0)>>,
                autoincrement |-> FALSE]]

\* The DDL statements of a migration expression, as sqlparser hands them on.
FoldStmts ==
    {[op |-> "create", tbl |-> TableT, body |-> FoldBodies[b],
      if_not_exists |-> e] : b \in {"named", "coded"}, e \in BOOLEAN}
    \cup {[op |-> "create", tbl |-> TableU, body |-> FoldBodies.named,
           if_not_exists |-> FALSE]}
    \cup {[op |-> "add", tbl |-> TableT, col |-> Col(s_note, TEXT, 0, 0)]}
    \cup {[op |-> "drop", tbl |-> TableT, col |-> s_name]}
    \cup {[op |-> "rename_column", tbl |-> TableT, old |-> c, new |-> s_n] :
            c \in {s_name, s_note}}
    \cup {[op |-> "rename_table", tbl |-> TableT, to |-> TableU]}
    \cup {[op |-> "drop_table", tbl |-> t] : t \in {TableT, TableU}}

Renamed(cols, old, new) ==
    [k \in 1..Len(cols) |->
        IF cols[k].name = old THEN [cols[k] EXCEPT !.name = new] ELSE cols[k]]

Without(f, t) == [x \in DOMAIN f \ {t} |-> f[x]]

With(f, t, v) == [x \in DOMAIN f \cup {t} |-> IF x = t THEN v ELSE f[x]]

\* An Oracle whose RENAME COLUMN moves the column to the end.
OracleDdl_last(db, st) ==
    CASE st.op = "create" /\ st.if_not_exists /\ st.tbl \in DOMAIN db ->
            [ok |-> TRUE, db |-> db]
      [] st.op = "rename_column" ->
            IF /\ st.tbl \in DOMAIN db
               /\ HasColumn(db[st.tbl], st.old)
               /\ ~HasColumn(db[st.tbl], st.new)
            THEN [ok |-> TRUE,
                  db |-> [db EXCEPT ![st.tbl] =
                             WithoutColumn(@, st.old) \o
                             Renamed(SelectSeq(@, LAMBDA x : x.name = st.old),
                                     st.old, st.new)]]
            ELSE [ok |-> FALSE, db |-> db]
      [] st.op = "rename_table" ->
            IF st.tbl \in DOMAIN db /\ st.to \notin DOMAIN db
            THEN [ok |-> TRUE,
                  db |-> With(Without(db, st.tbl), st.to, db[st.tbl])]
            ELSE [ok |-> FALSE, db |-> db]
      [] st.op = "drop_table" ->
            IF st.tbl \in DOMAIN db
            THEN [ok |-> TRUE, db |-> Without(db, st.tbl)]
            ELSE [ok |-> FALSE, db |-> db]
      [] OTHER -> ApplyDdl(db, st)

\* db.execute_all(&stmt.to_string()) on the in-memory Oracle: CREATE TABLE
\* IF NOT EXISTS leaves an existing table alone, RENAME COLUMN renames in
\* place, RENAME TO and DROP TABLE need the table to exist.
OracleDdl(db, st) ==
    CASE st.op = "create" /\ st.if_not_exists /\ st.tbl \in DOMAIN db ->
            [ok |-> TRUE, db |-> db]
      [] st.op = "rename_column" ->
            IF /\ st.tbl \in DOMAIN db
               /\ HasColumn(db[st.tbl], st.old)
               /\ ~HasColumn(db[st.tbl], st.new)
            THEN [ok |-> TRUE,
                  db |-> [db EXCEPT ![st.tbl] = Renamed(@, st.old, st.new)]]
            ELSE [ok |-> FALSE, db |-> db]
      [] st.op = "rename_table" ->
            IF st.tbl \in DOMAIN db /\ st.to \notin DOMAIN db
            THEN [ok |-> TRUE,
                  db |-> With(Without(db, st.tbl), st.to, db[st.tbl])]
            ELSE [ok |-> FALSE, db |-> db]
      [] st.op = "drop_table" ->
            IF st.tbl \in DOMAIN db
            THEN [ok |-> TRUE, db |-> Without(db, st.tbl)]
            ELSE [ok |-> FALSE, db |-> db]
      [] OTHER -> ApplyDdl(db, st)

RECURSIVE OracleFold(_, _, _)
\* The loop of sql_macro over migrate_expr.statements, up to statement n.
OracleFold(db, ddl, n) ==
    IF n = 0
    THEN [ok |-> TRUE, db |-> db]
    ELSE LET before == OracleFold(db, ddl, n - 1)
         IN  IF before.ok THEN OracleDdl(before.db, ddl[n]) ELSE before

\* One arm of the match in db_schema on the map built so far.
db_schema_stmt(set, st) ==
    CASE st.op = "create" ->
            [ok |-> TRUE, set |-> With(set, st.tbl, st.body.cols)]
      [] st.op = "add" ->
            IF st.tbl \in DOMAIN set
            THEN [ok |-> TRUE, set |-> [set EXCEPT ![st.tbl] = Append(@, st.col)]]
            ELSE [ok |-> FALSE, set |-> set]
      [] st.op = "drop" ->
            IF st.tbl \in DOMAIN set
            THEN [ok |-> TRUE,
                  set |-> [set EXCEPT ![st.tbl] = WithoutColumn(@, st.col)]]
            ELSE [ok |-> TRUE, set |-> set]
      [] st.op = "rename_column" ->
            IF st.tbl \in DOMAIN set /\ HasColumn(set[st.tbl], st.old)
            THEN LET cols == set[st.tbl]
                     ix == CHOOSE k \in 1..Len(cols) :
                              /\ cols[k].name = st.old
                              /\ \A j \in 1..(k - 1) : cols[j].name # st.old
                 IN  [ok |-> TRUE,
                      set |-> [set EXCEPT ![st.tbl] =
                                  Append(SubSeq(cols, 1, ix - 1)
                                            \o SubSeq(cols, ix + 1, Len(cols)),
                                         [cols[ix] EXCEPT !.name = st.new])]]
            ELSE [ok |-> TRUE, set |-> set]
      [] st.op = "rename_table" ->
            IF st.tbl \in DOMAIN set
            THEN [ok |-> TRUE,
                  set |-> With(Without(set, st.tbl), st.to, set[st.tbl])]
            ELSE [ok |-> TRUE, set |-> set]
      [] OTHER -> [ok |-> TRUE, set |-> Without(set, st.tbl)]

RECURSIVE db_schema_upto(_, _)
\* statements.iter().try_for_each(..) over the first n statements; ok is
\* FALSE once todo!() was reached.
db_schema_upto(ddl, n) ==
    IF n = 0
    THEN [ok |-> TRUE, set |-> <<>>]
    ELSE LET before == db_schema_upto(ddl, n - 1)
         IN  IF before.ok THEN db_schema_stmt(before.set, ddl[n]) ELSE before

db_schema(ddl) == db_schema_upto(ddl, Len(ddl))

\* sql_macro from the replay on the Oracle to structs_tokens.
EmittedStructs(ddl) ==
    LET oracle == OracleFold(<<>>, ddl, Len(ddl))
    IN  IF oracle.ok THEN structs_tokens(schema(oracle.db)).structs ELSE {}

InitFold ==
    /\ \E n \in 1..MaxFold : \E ddl \in [1..n -> FoldStmts] :
          call = [fn |-> "db_schema", ddl |-> ddl]
    /\ callPhase = "input"
    /\ ret = [ok |-> FALSE]
    /\ namesOk = FALSE
    /\ GenIdle
    /\ MigOff
    /\ DrvOff

\* The migration expression folded by db_schema and replayed on the Oracle.
Fold ==
    /\ callPhase = "input"
    /\ call.fn = "db_schema"
    /\ ret' = [ok |-> OracleFold(<<>>, call.ddl, Len(call.ddl)).ok,
               oracle |-> OracleFold(<<>>, call.ddl, Len(call.ddl)).db,
               model |-> db_schema(call.ddl),
               structs |-> EmittedStructs(call.ddl)]
    /\ callPhase' = "done"
    /\ UNCHANGED <<call, namesOk>>
    /\ UNCHANGED migVars
    /\ UNCHANGED genVars
    /\ UNCHANGED drvVars

NextFold == Fold

SpecFold == InitFold /\ [][NextFold]_vars

Folded == callPhase = "done" /\ call.fn = "db_schema" /\ ret.ok

ColumnNamesOf(cols) == [k \in 1..Len(cols) |-> cols[k].name]

\* The migration ends with a RENAME COLUMN the Oracle accepted.
RenamedLast ==
    Folded /\ call.ddl[Len(call.ddl)].op = "rename_column"

LastStmt == call.ddl[Len(call.ddl)]

\* The table's columns just before the last statement.
ColumnsBefore ==
    OracleFold(<<>>, call.ddl, Len(call.ddl) - 1).db[LastStmt.tbl]

PositionOf(cols, c) == CHOOSE k \in 1..Len(cols) : cols[k].name = c

\* C24 as stated: after RENAME COLUMN a TO b, b is the last column of the
\* table in the schema used for emission and the last field of its entity
\* struct.
C24_RenamedLast ==
    RenamedLast =>
        /\ ret.oracle[LastStmt.tbl][Len(ret.oracle[LastStmt.tbl])].name
              = LastStmt.new
        /\ \A e \in ret.structs :
              e.ident = LastStmt.tbl =>
                  e.fields[Len(e.fields)].name = LastStmt.new

\* C24: after RENAME COLUMN a TO b, b stands where a stood in the schema
\* used for emission and in the entity struct of the table, and every other
\* column keeps its position.
C24_RenamedInPlace ==
    RenamedLast =>
        /\ \E e \in ret.structs : e.ident = LastStmt.tbl
        /\ \A e \in ret.structs :
              e.ident = LastStmt.tbl =>
                 /\ Len(e.fields) = Len(ColumnsBefore)
                 /\ \A k \in 1..Len(ColumnsBefore) :
                       e.fields[k].name =
                          IF k = PositionOf(ColumnsBefore, LastStmt.old)
                          THEN LastStmt.new
                          ELSE ColumnsBefore[k].name

C24_Witness ==
    /\ RenamedLast
    /\ PositionOf(ColumnsBefore, LastStmt.old) < Len(ColumnsBefore)
    /\ \E e \in ret.structs :
          /\ e.ident = LastStmt.tbl
          /\ e.fields[PositionOf(ColumnsBefore, LastStmt.old)].name
                = LastStmt.new
    /\ db_schema(call.ddl).set[LastStmt.tbl]
          [Len(ColumnsBefore)].name = LastStmt.new

\* C25: for a DDL sequence the Oracle accepts, the map db_schema folds has
\* the tables the Oracle reports, each with the same column names in the
\* same order.
C25_ModelEqualsOracle ==
    Folded =>
        /\ ret.model.ok
        /\ DOMAIN ret.model.set = DOMAIN ret.oracle
        /\ \A t \in DOMAIN ret.oracle :
              ColumnNamesOf(ret.model.set[t]) = ColumnNamesOf(ret.oracle[t])


\* ============================================ accessors over joined tables
MaxJoin == 2

\* create table T (code text primary key, note text);
\* create table U (id integer primary key, note integer not null);
\* as the schema query reports it.
JoinSchema ==
    [t \in {TableT, TableU} |->
        IF t = TableT
        THEN << SchemaRow(TableT, s_code, TEXT, 0, 1),
                SchemaRow(TableT, s_note, TEXT, 0, 0) >>
        ELSE << SchemaRow(TableU, s_id, INTEGER, 0, 1),
                SchemaRow(TableU, s_note, INTEGER, 1, 0) >>]

\* Result columns written as table.column in the select list.
QualifiedColumns ==
    {[table |-> t, column |-> JoinSchema[t][k].column_name] :
        t \in {TableT, TableU}, k \in 1..2}

\* The relations of the FROM clause, in the order written.
Relations == {<<TableT>>, <<TableU>>, <<TableT, TableU>>, <<TableU, TableT>>}

JoinParams == {Anonymous} \cup {<<Colon>> \o n : n \in {s_code, s_note, s_id}}

\* Sqlite::table_names: sqlite3_column_table_name of every result column.
query_table_names(select) == [k \in 1..Len(select) |-> select[k].table]

\* join_table_names: every relation visit_relations comes by.
join_table_names(relations) == relations

\* What fn_tokens reads off the prepared statement and the parsed one.
JoinStmt(c) ==
    [params |-> c.params,
     columns |-> [k \in 1..Len(c.select) |-> c.select[k].column],
     tables |-> query_table_names(c.select) \o join_table_names(c.from)]

InitJoin ==
    /\ \E np \in 0..MaxJoin : \E nc \in 0..MaxJoin :
          \E ps \in NameSeqs(JoinParams, np),
             sel \in NameSeqs(QualifiedColumns, nc), from \in Relations :
              /\ \A k \in 1..nc : \E j \in 1..Len(from) : from[j] = sel[k].table
              /\ call = [fn |-> "fn_tokens_join", params |-> ps,
                         select |-> sel, from |-> from]
    /\ callPhase = "input"
    /\ ret = Generated(<<>>, <<>>, <<>>)
    /\ namesOk = FALSE
    /\ GenIdle
    /\ MigOff
    /\ DrvOff

\* fn_tokens on one query over the relations of its FROM clause.
InferJoin ==
    /\ callPhase = "input"
    /\ call.fn = "fn_tokens_join"
    /\ ret' = fn_tokens_body(JoinSchema, JoinStmt(call))
    /\ callPhase' = "done"
    /\ UNCHANGED <<call, namesOk>>
    /\ UNCHANGED migVars
    /\ UNCHANGED genVars
    /\ UNCHANGED drvVars

NextJoin == InferJoin

SpecJoin == InitJoin /\ [][NextJoin]_vars

InferredJoin == callPhase = "done" /\ call.fn = "fn_tokens_join" /\ ret.ok

\* The Schema Column a result column written table.column originates from.
OriginRow(q) ==
    CHOOSE r \in {JoinSchema[q.table][k] : k \in 1..Len(JoinSchema[q.table])} :
        r.column_name = q.column

\* C26: every hint-less output column gets the type and nullability of the
\* Schema Column of the table it originates from, also when another table
\* of the statement has a column of the same name.
C26_OriginatingTable ==
    InferredJoin =>
        \A k \in 1..Len(call.select) :
            /\ ret.fields[k].type =
                  field_type_from_datatype_name(
                      OriginRow(call.select[k]).column_type)
            /\ ret.fields[k].optional <=>
                  (OriginRow(call.select[k]).not_null = 0
                      /\ OriginRow(call.select[k]).pk = 0)

\* C29: for every accessor input the binding expression takes the argument
\* apart as an Option exactly when the argument's declared type is an
\* Option; into() converts either.
C29_BindingAgrees ==
    InferredJoin =>
        \A i \in 1..Len(ret.args) :
            /\ ret.params[i].value = "match_option" => ret.args[i].optional
            /\ ret.params[i].value = "to_string" => ~ret.args[i].optional


\* ------------------------------------------ the migrate fn and the Oracle
\* C28: when the first call of the migrate fn on a fresh database returns
\* Ok, the live schema has the tables and columns the Oracle derived from
\* the migration text at generation time.
C28_MigrateEqualsOracle ==
    (phase = "idle" /\ run = 1 /\ opened = EmptyDb /\ results = <<"ok">>) =>
        live = OracleApply(EmptyDb, sql).db

====
